---- MODULE Spec2Model ----
(***************************************************************************)
(* The booking dialogue of the EasySalon chatbot: the LangGraph workflow   *)
(* of src/src/booking_workflow.py (nodes, routers, helper functions) and   *)
(* the session registry of src/src/chatbot.py (handle_question).           *)
(*                                                                         *)
(* Python strings are sequences of one-character strings, so that `in`,    *)
(* lower() and strip() are computed and not assumed.  Optional values are  *)
(* None (the empty tuple) or Some(v) (a one-element tuple).  Timestamps of *)
(* log entries are left out: no code reads them.                           *)
(***************************************************************************)
EXTENDS Integers, Sequences, FiniteSets, TLC

\* ------------------------------------------------------------------ bounds

\* user messages handled over the life of the model (all sessions together)
MaxTurns == 3
\* the same, when the user only sends BookingMessages
MaxBookingTurns == 4
\* LangGraph stops a run after this many node executions (GraphRecursionError);
\* the library's default is 25
RecursionLimit == 25

\* ----------------------------------------------------------- Python values

None == <<>>
Some(v) == <<v>>

\* Python truthiness of an Optional[str] value ("" is the empty tuple)
Truthy(o) == o # None /\ o[1] # <<>>

UpperCase == <<"A","B","C","D","E","F","G","H","I","J","K","L","M","N","O","P","Q","R","S","T","U","V","W","X","Y","Z">>
LowerCase == <<"a","b","c","d","e","f","g","h","i","j","k","l","m","n","o","p","q","r","s","t","u","v","w","x","y","z">>

\* str.lower(), one character
LowerChar(c) ==
  IF \E i \in 1..Len(UpperCase) : UpperCase[i] = c
    THEN LowerCase[CHOOSE i \in 1..Len(UpperCase) : UpperCase[i] = c]
    ELSE c

\* str.lower()
Lower(s) == [i \in 1..Len(s) |-> LowerChar(s[i])]

\* str.strip(): leading and trailing blanks removed
RECURSIVE LStrip(_)
LStrip(s) == IF s # <<>> /\ Head(s) = " " THEN LStrip(Tail(s)) ELSE s
RECURSIVE RStrip(_)
RStrip(s) == IF s # <<>> /\ s[Len(s)] = " " THEN RStrip(SubSeq(s, 1, Len(s) - 1)) ELSE s
Strip(s) == RStrip(LStrip(s))

\* Python's `sub in s` on strings
Contains(s, sub) ==
  \E i \in 0..(Len(s) - Len(sub)) : \A j \in 1..Len(sub) : s[i + j] = sub[j]

\* any(w in s for w in words)
ContainsAny(s, words) == \E k \in 1..Len(words) : Contains(s, words[k])

\* s in [w1, w2, ...]
IsOneOf(s, words) == \E k \in 1..Len(words) : s = words[k]

\* ------------------------------------------------------------ keyword tables

EditWords ==
  << <<"e","d","i","t">>,
    <<"c","h","a","n","g","e">>,
    <<"m","o","d","i","f","y">>,
    <<"u","p","d","a","t","e">> >>

SummaryWords ==
  << <<"s","u","m","m","a","r","y">>,
    <<"s","t","a","t","u","s">>,
    <<"s","h","o","w">>,
    <<"r","e","v","i","e","w">>,
    <<"d","e","t","a","i","l","s">> >>

StartOverWords ==
  << <<"s","t","a","r","t"," ","o","v","e","r">>,
    <<"r","e","s","t","a","r","t">>,
    <<"b","e","g","i","n"," ","a","g","a","i","n">>,
    <<"r","e","s","e","t">> >>

ConfirmPhrases ==
  << <<"c","o","n","f","i","r","m"," ","b","o","o","k","i","n","g">>,
    <<"c","o","n","f","i","r","m"," ","a","p","p","o","i","n","t","m","e","n","t">>,
    <<"y","e","s"," ","c","o","n","f","i","r","m">>,
    <<"p","r","o","c","e","e","d"," ","w","i","t","h"," ","b","o","o","k","i","n","g">> >>

ConfirmTokens ==
  << <<"c","o","n","f","i","r","m">>,
    <<"y","e","s">>,
    <<"o","k">>,
    <<"p","r","o","c","e","e","d">>,
    <<"g","o"," ","a","h","e","a","d">> >>

CancelWords ==
  << <<"c","a","n","c","e","l">>,
    <<"s","t","o","p">>,
    <<"q","u","i","t">>,
    <<"e","x","i","t">> >>

SelectionWords ==
  << <<"1">>,
    <<"2">>,
    <<"3">>,
    <<"4">>,
    <<"5">>,
    <<"f","i","r","s","t">>,
    <<"s","e","c","o","n","d">>,
    <<"t","h","i","r","d">> >>

edit_mappings ==
  << [keyword |-> <<"n","a","m","e">>, field |-> "customer_name", next_step |-> "collect_customer_info"],
     [keyword |-> <<"p","h","o","n","e">>, field |-> "customer_mobile", next_step |-> "collect_customer_info"],
     [keyword |-> <<"m","o","b","i","l","e">>, field |-> "customer_mobile", next_step |-> "collect_customer_info"],
     [keyword |-> <<"b","r","a","n","c","h">>, field |-> "branch_id", next_step |-> "query_branches"],
     [keyword |-> <<"l","o","c","a","t","i","o","n">>, field |-> "branch_id", next_step |-> "query_branches"],
     [keyword |-> <<"s","a","l","o","n">>, field |-> "branch_id", next_step |-> "query_branches"],
     [keyword |-> <<"s","e","r","v","i","c","e">>, field |-> "service_id", next_step |-> "query_services"],
     [keyword |-> <<"t","r","e","a","t","m","e","n","t">>, field |-> "service_id", next_step |-> "query_services"],
     [keyword |-> <<"d","a","t","e">>, field |-> "booking_date", next_step |-> "collect_customer_info"],
     [keyword |-> <<"t","i","m","e">>, field |-> "booking_time", next_step |-> "collect_customer_info"],
     [keyword |-> <<"p","e","o","p","l","e">>, field |-> "total_customer", next_step |-> "collect_customer_info"],
     [keyword |-> <<"c","u","s","t","o","m","e","r">>, field |-> "total_customer", next_step |-> "collect_customer_info"] >>

\* ------------------------------------------------------------------- texts

\* The texts the workflow appends to the log, each cut to its opening words;
\* U+xxxx stands for one non-ASCII character.
Txt ==
  [ welcome |-> <<"S","t","a","r","t","i","n","g"," ","t","h","e"," ","a","p","p","o","i","n","t","m","e","n","t"," ","b","o","o","k","i","n","g"," ","p","r","o","c","e","s","s",".">>,
    no_user_message |-> <<"N","o"," ","u","s","e","r"," ","m","e","s","s","a","g","e"," ","f","o","u","n","d",".">>,
    selected_branch |-> <<"S","e","l","e","c","t","e","d"," ","b","r","a","n","c","h",":"," ">>,
    selected_service |-> <<"S","e","l","e","c","t","e","d"," ","s","e","r","v","i","c","e",":"," ">>,
    extraction_error |-> <<"E","r","r","o","r"," ","p","r","o","c","e","s","s","i","n","g"," ","e","x","t","r","a","c","t","i","o","n",":"," ">>,
    branch_list |-> <<"A","v","a","i","l","a","b","l","e"," ","B","r","a","n","c","h","e","s",":">>,
    no_branches |-> <<"I"," ","c","o","u","l","d","n","'","t"," ","f","i","n","d"," ","a","n","y"," ","s","a","l","o","n"," ","b","r","a","n","c","h","e","s",".">>,
    branch_error |-> <<"E","r","r","o","r"," ","q","u","e","r","y","i","n","g"," ","b","r","a","n","c","h","e","s",":"," ">>,
    service_list |-> <<"A","v","a","i","l","a","b","l","e"," ","S","e","r","v","i","c","e","s",":">>,
    no_services |-> <<"I"," ","c","o","u","l","d","n","'","t"," ","f","i","n","d"," ","a","n","y"," ","s","e","r","v","i","c","e","s",".">>,
    service_error |-> <<"E","r","r","o","r"," ","q","u","e","r","y","i","n","g"," ","s","e","r","v","i","c","e","s",":"," ">>,
    need_info |-> <<"I"," ","n","e","e","d"," ","y","o","u","r"," ">>,
    confirm_details |-> <<"*","*","P","l","e","a","s","e"," ","c","o","n","f","i","r","m"," ","y","o","u","r"," ","b","o","o","k","i","n","g"," ","d","e","t","a","i","l","s",":","*","*">>,
    still_needed |-> <<" ","s","t","i","l","l"," ","n","e","e","d","e","d">>,
    type_confirm |-> <<" ","t","y","p","e"," ","'","c","o","n","f","i","r","m","'">>,
    booking_confirmed |-> <<"U+2705"," ","*","*","B","o","o","k","i","n","g"," ","C","o","n","f","i","r","m","e","d","!","*","*">>,
    booking_failed |-> <<"U+274C"," ","*","*","B","o","o","k","i","n","g"," ","F","a","i","l","e","d",":","*","*"," ">>,
    booking_error |-> <<"U+274C"," ","*","*","B","o","o","k","i","n","g"," ","E","r","r","o","r",":","*","*"," ">>,
    issue_service |-> <<"I","t"," ","s","e","e","m","s"," ","t","h","e","r","e"," ","w","a","s"," ","a","n"," ","i","s","s","u","e"," ","w","i","t","h"," ","t","h","e"," ","s","e","r","v","i","c","e"," ","s","e","l","e","c","t","i","o","n",".">>,
    issue_branch |-> <<"I","t"," ","s","e","e","m","s"," ","t","h","e","r","e"," ","w","a","s"," ","a","n"," ","i","s","s","u","e"," ","w","i","t","h"," ","t","h","e"," ","b","r","a","n","c","h"," ","s","e","l","e","c","t","i","o","n",".">>,
    issue_date_time |-> <<"I","t"," ","s","e","e","m","s"," ","t","h","e","r","e"," ","w","a","s"," ","a","n"," ","i","s","s","u","e"," ","w","i","t","h"," ","t","h","e"," ","b","o","o","k","i","n","g"," ","d","a","t","e"," ","o","r"," ","t","i","m","e",".">>,
    try_again |-> <<"L","e","t","'","s"," ","t","r","y"," ","a","g","a","i","n"," ","w","i","t","h"," ","y","o","u","r"," ","b","o","o","k","i","n","g",".">>,
    start_over |-> <<"L","e","t","'","s"," ","s","t","a","r","t"," ","o","v","e","r"," ","w","i","t","h"," ","y","o","u","r"," ","b","o","o","k","i","n","g",".">>,
    cancelled |-> <<"Y","o","u","r"," ","b","o","o","k","i","n","g"," ","h","a","s"," ","b","e","e","n"," ","c","a","n","c","e","l","l","e","d",".">>,
    summary |-> <<"*","*","C","u","r","r","e","n","t"," ","B","o","o","k","i","n","g"," ","I","n","f","o","r","m","a","t","i","o","n",":","*","*">>,
    update_field |-> <<"I","'","l","l"," ","h","e","l","p"," ","y","o","u"," ","u","p","d","a","t","e"," ","y","o","u","r"," ">>,
    edit_options |-> <<"I"," ","c","a","n"," ","h","e","l","p"," ","y","o","u"," ","e","d","i","t"," ","a","n","y"," ","o","f"," ","t","h","e"," ","f","o","l","l","o","w","i","n","g",":">> ]

\* The needle Chatbot._is_booking_truly_complete looks for in assistant
\* messages (chatbot.py holds it with three other leading characters than
\* the banner booking_workflow.py writes)
ChatbotConfirmedBanner == <<"U+201A","U+00FA","U+00D6"," ","*","*","B","o","o","k","i","n","g"," ","C","o","n","f","i","r","m","e","d","!","*","*">>

\* Error strings: the two defaults of _create_booking, the texts of the Python
\* exceptions that can be raised, and a gateway failure message
Err ==
  [ unknown |-> <<"U","n","k","n","o","w","n"," ","e","r","r","o","r"," ","o","c","c","u","r","r","e","d">>,
    connect |-> <<"F","a","i","l","e","d"," ","t","o"," ","c","o","n","n","e","c","t"," ","t","o"," ","b","o","o","k","i","n","g"," ","s","e","r","v","i","c","e">>,
    str_has_no_get |-> <<"'","s","t","r","'"," ","o","b","j","e","c","t"," ","h","a","s"," ","n","o"," ","a","t","t","r","i","b","u","t","e"," ","'","g","e","t","'">>,
    invalid_int |-> <<"i","n","v","a","l","i","d"," ","l","i","t","e","r","a","l"," ","f","o","r"," ","i","n","t","(",")"," ","w","i","t","h"," ","b","a","s","e"," ","1","0">>,
    no_extract_manually |-> <<"'","B","o","o","k","i","n","g","W","o","r","k","f","l","o","w","'"," ","o","b","j","e","c","t"," ","h","a","s"," ","n","o"," ","a","t","t","r","i","b","u","t","e"," ","'","_","e","x","t","r","a","c","t","_","m","a","n","u","a","l","l","y","'">>,
    invalid_date |-> <<"I","n","v","a","l","i","d"," ","d","a","t","e">> ]

Digits == <<"0","1","2","3","4","5","6","7","8","9">>

Unknown == <<"U","n","k","n","o","w","n">>

\* ------------------------------------------------------- helper functions

RequiredFields ==
  << "customer_mobile", "customer_name", "branch_id",
     "service_id", "booking_date", "booking_time" >>

\* get_missing_fields: the required fields whose value is falsy, in the order
\* of required_fields
get_missing_fields(state) ==
  SelectSeq(RequiredFields, LAMBDA f : ~Truthy(state[f]))

\* update_missing_fields: recomputes missing_fields AND sets is_complete
update_missing_fields(state) ==
  [state EXCEPT !.missing_fields = get_missing_fields(state),
                !.is_complete = (Len(get_missing_fields(state)) = 0)]

\* add_message putting the entry before the log instead of after it
add_message_at_front(state, role, content) ==
  [state EXCEPT !.conversation_history =
                   <<[role |-> role, content |-> content]>> \o @]

\* add_message (the timestamp is left out)
add_message(state, role, content) ==
  [state EXCEPT !.conversation_history =
                   Append(@, [role |-> role, content |-> content])]

\* initialize_booking_state(session_id)
initialize_booking_state(session_id) ==
  [ customer_mobile |-> None,
    customer_name |-> None,
    total_customer |-> Some(1),
    branch_id |-> None,
    service_id |-> None,
    booking_date |-> None,
    booking_time |-> None,
    branch_options |-> <<>>,
    service_options |-> <<>>,
    conversation_history |-> <<>>,
    current_step |-> "start",
    missing_fields |-> <<>>,
    is_complete |-> FALSE,
    error_message |-> None,
    session_id |-> session_id,
    edit_mode |-> FALSE,
    last_user_intent |-> None,
    booking_summary_shown |-> FALSE ]

\* detect_user_intent taking a confirm token anywhere in the message and asking
\* for a cancel word before every other keyword
detect_user_intent_loose(user_message) ==
  LET message_lower == Strip(Lower(user_message)) IN
  IF ContainsAny(message_lower, CancelWords) THEN "cancel"
  ELSE IF ContainsAny(message_lower, EditWords) THEN "edit"
  ELSE IF ContainsAny(message_lower, SummaryWords) THEN "show_summary"
  ELSE IF ContainsAny(message_lower, StartOverWords) THEN "start_over"
  ELSE IF ContainsAny(message_lower, ConfirmPhrases) THEN "confirm"
  ELSE IF ContainsAny(message_lower, ConfirmTokens) THEN "confirm"
  ELSE "provide_info"

\* detect_user_intent
detect_user_intent(user_message) ==
  LET message_lower == Strip(Lower(user_message)) IN
  IF ContainsAny(message_lower, EditWords) THEN "edit"
  ELSE IF ContainsAny(message_lower, SummaryWords) THEN "show_summary"
  ELSE IF ContainsAny(message_lower, StartOverWords) THEN "start_over"
  ELSE IF ContainsAny(message_lower, ConfirmPhrases) THEN "confirm"
  ELSE IF IsOneOf(message_lower, ConfirmTokens) THEN "confirm"
  ELSE IF ContainsAny(message_lower, CancelWords) THEN "cancel"
  ELSE "provide_info"

\* handle_edit_command: the first entry of edit_mappings (dict order) whose
\* keyword occurs in the message; field None when there is none
handle_edit_command(user_message) ==
  LET message_lower == Lower(user_message)
      hits == { k \in 1..Len(edit_mappings) :
                  Contains(message_lower, edit_mappings[k].keyword) }
  IN IF hits = {}
       THEN [field |-> None, next_step |-> "show_edit_options"]
       ELSE LET k == CHOOSE k \in hits : \A h \in hits : k <= h
            IN [field |-> Some(edit_mappings[k].field),
                next_step |-> edit_mappings[k].next_step]

\* the latest user message of the log (None when there is none)
latest_user_message(state) ==
  LET h == state.conversation_history
      us == { i \in 1..Len(h) : h[i].role = "user" }
  IN IF us = {} THEN None
     ELSE Some(h[CHOOSE i \in us : \A j \in us : j <= i].content)

\* str(i) for a natural number: its decimal digits
RECURSIVE Str(_)
Str(n) == IF n < 10 THEN <<Digits[n + 1]>>
          ELSE Str(n \div 10) \o <<Digits[(n % 10) + 1]>>

\* whether int(s) succeeds (digits only, not empty)
IsInt(s) ==
  /\ s # <<>>
  /\ \A i \in 1..Len(s) : \E d \in 1..Len(Digits) : Digits[d] = s[i]

\* int(s), for s with IsInt(s)
RECURSIVE ParseInt(_)
ParseInt(s) ==
  LET last == (CHOOSE d \in 1..Len(Digits) : Digits[d] = s[Len(s)]) - 1
  IN IF Len(s) = 1 THEN last ELSE 10 * ParseInt(SubSeq(s, 1, Len(s) - 1)) + last

\* --------------------------------------------------------- SelectionMatcher

\* the ordinal patterns _parse_selection builds for position i
OrdinalPatterns(i) ==
  { <<" ">> \o Str(i) \o <<" ">>,
    <<" ">> \o Str(i) \o <<".">>,
    <<" ">> \o Str(i) \o <<",">>,
    <<"o","p","t","i","o","n"," ">> \o Str(i),
    <<"c","h","o","i","c","e"," ">> \o Str(i),
    <<"n","u","m","b","e","r"," ">> \o Str(i),
    <<"#">> \o Str(i),
    <<"(">> \o Str(i) \o <<")">> }

\* _parse_selection trying the names before the numbers
parse_selection_name_first(user_message, options) ==
  LET user_msg == Lower(user_message)
      top == IF Len(options) < 5 THEN Len(options) ELSE 5
      byOrdinal == { i \in 1..top :
                       \/ Strip(user_msg) = Str(i)
                       \/ \E p \in OrdinalPatterns(i) : Contains(user_msg, p) }
      byName == { i \in 1..Len(options) : Contains(user_msg, Lower(options[i].name)) }
  IN IF byName # {}
       THEN Some(options[CHOOSE i \in byName : \A j \in byName : i <= j])
     ELSE IF byOrdinal # {}
       THEN Some(options[CHOOSE i \in byOrdinal : \A j \in byOrdinal : i <= j])
     ELSE None

\* _parse_selection: the first of the first five positions that the message
\* names by ordinal; else the first option whose name occurs in the message;
\* else None
_parse_selection(user_message, options) ==
  LET user_msg == Lower(user_message)
      top == IF Len(options) < 5 THEN Len(options) ELSE 5
      byOrdinal == { i \in 1..top :
                       \/ Strip(user_msg) = Str(i)
                       \/ \E p \in OrdinalPatterns(i) : Contains(user_msg, p) }
      byName == { i \in 1..Len(options) : Contains(user_msg, Lower(options[i].name)) }
  IN IF byOrdinal # {}
       THEN Some(options[CHOOSE i \in byOrdinal : \A j \in byOrdinal : i <= j])
     ELSE IF byName # {}
       THEN Some(options[CHOOSE i \in byName : \A j \in byName : i <= j])
     ELSE None

\* ------------------------------------------------------------ workflow nodes

\* _start_node (the session id is always set by initialize_booking_state)
_start_node(state) ==
  add_message([state EXCEPT !.current_step = "start"], "system", Txt.welcome)

\* _handle_user_intent.  start_over replaces every field by its initial value
\* (last_user_intent included) and keeps session_id and the log
_handle_user_intent(state) ==
  LET s0 == [state EXCEPT !.current_step = "handle_user_intent"]
      latest == latest_user_message(s0)
  IN IF latest = None THEN s0
     ELSE
       LET intent == detect_user_intent(latest[1])
           s1 == [s0 EXCEPT !.last_user_intent = Some(intent)]
       IN CASE intent = "show_summary" ->
                 [s1 EXCEPT !.current_step = "show_summary"]
            [] intent = "edit" ->
                 [s1 EXCEPT !.current_step = "handle_edit", !.edit_mode = TRUE]
            [] intent = "start_over" ->
                 [add_message(
                    [initialize_booking_state(s1.session_id)
                       EXCEPT !.conversation_history = s1.conversation_history],
                    "assistant", Txt.start_over)
                  EXCEPT !.current_step = "start"]
            [] intent = "confirm" ->
                 [s1 EXCEPT !.current_step = "confirm_details"]
            [] intent = "cancel" ->
                 [add_message(s1, "assistant", Txt.cancelled)
                  EXCEPT !.current_step = "cancelled"]
            [] OTHER -> s1

\* _show_summary (the summary text is cut to its heading)
_show_summary(state) ==
  [add_message([state EXCEPT !.current_step = "show_summary"],
               "assistant", Txt.summary)
   EXCEPT !.booking_summary_shown = TRUE]

\* _handle_edit without its update_missing_fields
handle_edit_without_update(state) ==
  LET s0 == [state EXCEPT !.current_step = "handle_edit"]
      latest == latest_user_message(s0)
      cmd == handle_edit_command(latest[1])
  IN IF latest = None THEN s0
     ELSE IF cmd.field # None
       THEN add_message([s0 EXCEPT ![cmd.field[1]] = None,
                                   !.current_step = cmd.next_step,
                                   !.branch_options =
                                      IF cmd.field[1] = "branch_id" THEN <<>> ELSE @,
                                   !.service_options =
                                      IF cmd.field[1] = "service_id" THEN <<>> ELSE @],
                        "assistant", Txt.update_field)
     ELSE [add_message(s0, "assistant", Txt.edit_options)
           EXCEPT !.current_step = "show_summary"]

\* _handle_edit
_handle_edit(state) ==
  LET s0 == [state EXCEPT !.current_step = "handle_edit"]
      latest == latest_user_message(s0)
  IN IF latest = None THEN s0
     ELSE
       LET cmd == handle_edit_command(latest[1]) IN
       IF cmd.field # None
         THEN LET f == cmd.field[1]
                  s1 == [s0 EXCEPT ![f] = None]
                  s2 == IF f = "branch_id" THEN [s1 EXCEPT !.branch_options = <<>>]
                        ELSE IF f = "service_id" THEN [s1 EXCEPT !.service_options = <<>>]
                        ELSE s1
                  s3 == [s2 EXCEPT !.current_step = cmd.next_step]
              IN update_missing_fields(add_message(s3, "assistant", Txt.update_field))
         ELSE [add_message(s0, "assistant", Txt.edit_options)
               EXCEPT !.current_step = "show_summary"]

\* _extract_with_llm writing every key the answer holds, null or not
extract_with_llm_overwriting(state, data) ==
  update_missing_fields(
    [k \in DOMAIN state |->
       IF k \in DOMAIN data /\ k # "next_step" THEN data[k] ELSE state[k]])

\* _extract_with_llm on a well-formed extractor answer `data` (a JSON object:
\* key -> None (null) or Some(string)): every key but next_step whose value is
\* truthy and not "Unknown" is written; then update_missing_fields
_extract_with_llm(state, data) ==
  update_missing_fields(
    [k \in DOMAIN state |->
       IF k \in DOMAIN data /\ k # "next_step"
          /\ Truthy(data[k]) /\ data[k][1] # Unknown
         THEN data[k] ELSE state[k]])

\* _extract_booking_info without update_missing_fields after a selection
extract_booking_info_without_update(state, data) ==
  LET s0 == [state EXCEPT !.current_step = "extract_info"]
      latest == latest_user_message(s0)
      bsel == IF latest # None /\ s0.branch_options # <<>> /\ ~Truthy(s0.branch_id)
                THEN _parse_selection(latest[1], s0.branch_options) ELSE None
      ssel == IF latest # None /\ s0.service_options # <<>> /\ ~Truthy(s0.service_id)
                THEN _parse_selection(latest[1], s0.service_options) ELSE None
  IN IF latest = None THEN add_message(s0, "system", Txt.no_user_message)
     ELSE IF bsel # None
       THEN add_message([s0 EXCEPT !.branch_id = Some(Str(bsel[1].id))],
                        "system", Txt.selected_branch \o bsel[1].name)
     ELSE IF ssel # None
       THEN add_message([s0 EXCEPT !.service_id = Some(Str(ssel[1].id))],
                        "system", Txt.selected_service \o ssel[1].name)
     ELSE _extract_with_llm(s0, data)

\* _extract_booking_info, for an extractor answer that parses.  A selection
\* from cached branch options, then from cached service options, pre-empts the
\* extractor
_extract_booking_info(state, data) ==
  LET s0 == [state EXCEPT !.current_step = "extract_info"]
      latest == latest_user_message(s0)
      bsel == IF latest # None /\ s0.branch_options # <<>> /\ ~Truthy(s0.branch_id)
                THEN _parse_selection(latest[1], s0.branch_options) ELSE None
      ssel == IF latest # None /\ s0.service_options # <<>> /\ ~Truthy(s0.service_id)
                THEN _parse_selection(latest[1], s0.service_options) ELSE None
  IN IF latest = None THEN add_message(s0, "system", Txt.no_user_message)
     ELSE IF bsel # None
       THEN update_missing_fields(
              add_message([s0 EXCEPT !.branch_id = Some(Str(bsel[1].id))],
                          "system", Txt.selected_branch \o bsel[1].name))
     ELSE IF ssel # None
       THEN update_missing_fields(
              add_message([s0 EXCEPT !.service_id = Some(Str(ssel[1].id))],
                          "system", Txt.selected_service \o ssel[1].name))
     ELSE _extract_with_llm(s0, data)

\* whether _extract_booking_info reaches the extractor (no selection matched)
ExtractorRuns(state) ==
  LET latest == latest_user_message(state) IN
  /\ latest # None
  /\ ~(state.branch_options # <<>> /\ ~Truthy(state.branch_id)
       /\ _parse_selection(latest[1], state.branch_options) # None)
  /\ ~(state.service_options # <<>> /\ ~Truthy(state.service_id)
       /\ _parse_selection(latest[1], state.service_options) # None)

\* whether _extract_booking_info calls _parse_selection: on cached branch
\* options while no branch is selected, else (no branch matched) on cached
\* service options while no service is selected
MatcherRuns(state) ==
  /\ latest_user_message(state) # None
  /\ \/ state.branch_options # <<>> /\ ~Truthy(state.branch_id)
     \/ state.service_options # <<>> /\ ~Truthy(state.service_id)

\* The selection a node resolves from the latest user message: the matched
\* option of the cached list of `field`, tried only while options are cached
\* and the field is unset.  extract_info tries the branch, then the service;
\* query_branches and query_services try their own field.
Resolved(state, field, options) ==
  LET latest == latest_user_message(state)
      sel == IF latest # None /\ state[options] # <<>> /\ ~Truthy(state[field])
               THEN _parse_selection(latest[1], state[options]) ELSE None
  IN IF sel = None THEN <<>>
     ELSE << [field |-> field, options |-> options, option |-> sel[1]] >>

ResolvedBy(node, state) ==
  CASE node = "extract_info" ->
         IF Resolved(state, "branch_id", "branch_options") # <<>>
           THEN Resolved(state, "branch_id", "branch_options")
           ELSE Resolved(state, "service_id", "service_options")
    [] node = "query_branches" -> Resolved(state, "branch_id", "branch_options")
    [] node = "query_services" -> Resolved(state, "service_id", "service_options")

\* _get_mock_branch_data (the first two records; id and name)
_get_mock_branch_data ==
  << [id |-> 1, name |-> <<"E","a","s","y","S","a","l","o","n"," ","D","o","w","n","t","o","w","n">>],
     [id |-> 2, name |-> <<"E","a","s","y","S","a","l","o","n"," ","U","p","t","o","w","n">>] >>

\* _fetch_salon_branches on the gateway's answer: its data, or the mock data
\* when the request failed
_fetch_salon_branches(answer) ==
  IF answer = None THEN Some(_get_mock_branch_data) ELSE answer

\* _query_branches; catalog is what _fetch_salon_branches gives: Some(list),
\* possibly empty.  The branch records are well formed, so rendering the list
\* does not raise.
_query_branches(state, catalog) ==
  LET s0 == [state EXCEPT !.current_step = "query_branches"]
      latest == latest_user_message(s0)
      sel == IF s0.branch_options # <<>> /\ ~Truthy(s0.branch_id) /\ latest # None
               THEN _parse_selection(latest[1], s0.branch_options) ELSE None
  IN IF sel # None
       THEN update_missing_fields(
              add_message([s0 EXCEPT !.branch_id = Some(Str(sel[1].id))],
                          "system", Txt.selected_branch \o sel[1].name))
     ELSE IF catalog # None /\ catalog[1] # <<>>
       THEN add_message([s0 EXCEPT !.branch_options = catalog[1]],
                        "assistant", Txt.branch_list)
     ELSE add_message(s0, "assistant", Txt.no_branches)

\* _query_services; catalog is what Easysalon.get_services gives: Some(list),
\* possibly empty, or None (APIService._get caught an error), which the node
\* treats like an empty list
_query_services(state, catalog) ==
  LET s0 == [state EXCEPT !.current_step = "query_services"]
      latest == latest_user_message(s0)
      sel == IF s0.service_options # <<>> /\ ~Truthy(s0.service_id) /\ latest # None
               THEN _parse_selection(latest[1], s0.service_options) ELSE None
  IN IF sel # None
       THEN update_missing_fields(
              add_message([s0 EXCEPT !.service_id = Some(Str(sel[1].id))],
                          "system", Txt.selected_service \o sel[1].name))
     ELSE IF catalog # None /\ catalog[1] # <<>>
       THEN add_message([s0 EXCEPT !.service_options = catalog[1]],
                        "assistant", Txt.service_list)
     ELSE add_message(s0, "assistant", Txt.no_services)

\* " and ".join(missing) of _collect_customer_info
missing_str(state) ==
  IF ~Truthy(state.customer_name) /\ ~Truthy(state.customer_mobile)
    THEN <<"n","a","m","e"," ","a","n","d"," ","p","h","o","n","e"," ","n","u","m","b","e","r">>
  ELSE IF ~Truthy(state.customer_name) THEN <<"n","a","m","e">>
  ELSE IF ~Truthy(state.customer_mobile)
    THEN <<"p","h","o","n","e"," ","n","u","m","b","e","r">>
  ELSE <<>>

\* _collect_customer_info
_collect_customer_info(state) ==
  LET s0 == [state EXCEPT !.current_step = "collect_customer_info"] IN
  IF ~Truthy(s0.customer_name) \/ ~Truthy(s0.customer_mobile)
    THEN add_message(s0, "assistant", Txt.need_info \o missing_str(s0))
    ELSE [s0 EXCEPT !.current_step = "confirm_details"]

\* _confirm_details
_confirm_details(state) ==
  LET s0 == update_missing_fields([state EXCEPT !.current_step = "confirm_details"]) IN
  add_message(s0, "assistant",
              Txt.confirm_details \o
                (IF s0.missing_fields # <<>> THEN Txt.still_needed ELSE Txt.type_confirm))

\* ------------------------------------------------------------ BookingGateway

\* dateparser.parse followed by strftime("%Y-%m-%d"): None for a text that
\* does not parse
convert_to_api_date(date_str) ==
  IF ~Truthy(date_str) THEN None
  ELSE IF date_str[1] = <<"t","o","m","o","r","r","o","w">>
    THEN Some(<<"2","0","2","6","-","1","1","-","0","2">>)
  ELSE None

\* dateparser.parse followed by strftime("%H:%M")
convert_to_api_time(time_str) ==
  IF ~Truthy(time_str) THEN None
  ELSE IF time_str[1] = <<"2","p","m">> THEN Some(<<"1","4",":","0","0">>)
  ELSE None

\* the fallback ids of _create_booking
DefaultBranchId == 8850
DefaultServiceId == 257170

\* whether building booking_request raises (int() of a non-numeric id)
BookingRequestRaises(state) ==
  \/ Truthy(state.branch_id) /\ ~IsInt(state.branch_id[1])
  \/ Truthy(state.service_id) /\ ~IsInt(state.service_id[1])

\* booking_request of _create_booking
booking_request(state) ==
  [ customer_name |-> state.customer_name,
    customer_mobile |-> state.customer_mobile,
    total_customer |-> state.total_customer,
    branch_id |-> IF Truthy(state.branch_id)
                    THEN ParseInt(state.branch_id[1]) ELSE DefaultBranchId,
    service_id |-> IF Truthy(state.service_id)
                     THEN ParseInt(state.service_id[1]) ELSE DefaultServiceId,
    booking_date |-> convert_to_api_date(state.booking_date),
    booking_time |-> convert_to_api_time(state.booking_time) ]

\* What Easysalon.book_appointment can return: None (APIService._post caught an
\* HTTP error), or the "data" of the answer: a JSON object, here with its
\* bookingCode (a JSON string, or the JSON value true) and message members
\* (None when absent), or a JSON string.
GatewayResponses ==
  { [kind |-> "none", bookingCode |-> None, message |-> None],
    [kind |-> "object", bookingCode |-> Some([type |-> "str", v |-> <<"B","K","1">>]),
     message |-> None],
    [kind |-> "object", bookingCode |-> Some([type |-> "bool", v |-> <<"t","r","u","e">>]),
     message |-> None],
    [kind |-> "object", bookingCode |-> None, message |-> Some(Err.invalid_date)],
    [kind |-> "string", bookingCode |-> None, message |-> None] }

\* the gateway created a booking: its answer carries a non-empty code
GatewayAccepted(resp) ==
  resp.kind = "object" /\ resp.bookingCode # None /\ resp.bookingCode[1].v # <<>>

\* Python's `api_response and api_response.get("bookingCode", False) == True`
\* for a None or JSON-object answer: a string never equals True
ResponseIsSuccess(resp) ==
  /\ resp.kind = "object"
  /\ resp.bookingCode # None
  /\ resp.bookingCode[1].type = "bool"
  /\ resp.bookingCode[1].v = <<"t","r","u","e">>

\* the except branch of _create_booking, with str(e)
create_booking_except(state, e) ==
  [add_message([state EXCEPT !.error_message = Some(e)],
               "assistant", Txt.booking_error \o e)
   EXCEPT !.current_step = "handle_error"]

\* _create_booking; resp is the gateway's answer when the call is made
_create_booking(state, resp) ==
  LET s0 == [state EXCEPT !.current_step = "create_booking"] IN
  IF BookingRequestRaises(s0) THEN create_booking_except(s0, Err.invalid_int)
  ELSE IF resp.kind = "string" THEN create_booking_except(s0, Err.str_has_no_get)
  ELSE IF ResponseIsSuccess(resp)
    THEN [add_message(s0, "assistant", Txt.booking_confirmed)
          EXCEPT !.is_complete = TRUE]
  ELSE LET error_message ==
             IF resp.kind = "none" THEN Err.connect
             ELSE IF resp.message # None THEN resp.message[1]
             ELSE Err.unknown
       IN [add_message([s0 EXCEPT !.error_message = Some(error_message)],
                       "assistant", Txt.booking_failed \o error_message)
           EXCEPT !.current_step = "handle_error"]

\* _handle_error (reached with error_message set)
_handle_error(state) ==
  LET s0 == [state EXCEPT !.current_step = "handle_error"]
      error_msg == Lower(s0.error_message[1])
      s1 ==
        IF Contains(error_msg, <<"s","e","r","v","i","c","e">>)
          THEN [add_message(s0, "assistant", Txt.issue_service)
                EXCEPT !.current_step = "query_services"]
        ELSE IF Contains(error_msg, <<"b","r","a","n","c","h">>)
          THEN [add_message(s0, "assistant", Txt.issue_branch)
                EXCEPT !.current_step = "query_branches"]
        ELSE IF Contains(error_msg, <<"d","a","t","e">>)
                \/ Contains(error_msg, <<"t","i","m","e">>)
          THEN [update_missing_fields(
                  [add_message(s0, "assistant", Txt.issue_date_time)
                   EXCEPT !.booking_date = None, !.booking_time = None])
                EXCEPT !.current_step = "collect_customer_info"]
        ELSE [add_message(s0, "assistant", Txt.try_again)
              EXCEPT !.current_step = "confirm_details"]
  IN [s1 EXCEPT !.error_message = None]

\* ------------------------------------------------------------------ routers

\* _route_after_extraction asking for the service before the branch
route_after_extraction_service_first(state) ==
  LET latest == latest_user_message(state)
      content == Lower(latest[1])
      selecting_branch == state.branch_options # <<>> /\ ~Truthy(state.branch_id)
      selecting_service == state.service_options # <<>> /\ ~Truthy(state.service_id)
  IN IF latest # None
        /\ detect_user_intent(latest[1]) \in
             {"edit", "show_summary", "start_over", "confirm", "cancel"}
       THEN "handle_user_intent"
     ELSE IF latest # None /\ selecting_service /\ ContainsAny(content, SelectionWords)
       THEN "query_services"
     ELSE IF latest # None /\ selecting_branch /\ ContainsAny(content, SelectionWords)
       THEN "query_branches"
     ELSE IF latest # None /\ ~(selecting_branch \/ selecting_service)
             /\ (\/ Contains(content, <<"b","r","a","n","c","h">>)
                 \/ Contains(content, <<"s","a","l","o","n">>)
                 \/ Contains(content, <<"l","o","c","a","t","i","o","n">>))
       THEN "query_branches"
     ELSE IF latest # None /\ ~(selecting_branch \/ selecting_service)
             /\ (\/ Contains(content, <<"s","e","r","v","i","c","e">>)
                 \/ Contains(content, <<"t","r","e","a","t","m","e","n","t">>))
       THEN "query_services"
     ELSE IF ~Truthy(state.service_id) THEN "query_services"
     ELSE IF ~Truthy(state.branch_id) THEN "query_branches"
     ELSE IF ~Truthy(state.customer_name) \/ ~Truthy(state.customer_mobile)
       THEN "collect_customer_info"
     ELSE "confirm_details"

\* _route_after_extraction
_route_after_extraction(state) ==
  LET latest == latest_user_message(state)
      content == Lower(latest[1])
      selecting_branch == state.branch_options # <<>> /\ ~Truthy(state.branch_id)
      selecting_service == state.service_options # <<>> /\ ~Truthy(state.service_id)
  IN IF latest # None
        /\ detect_user_intent(latest[1]) \in
             {"edit", "show_summary", "start_over", "confirm", "cancel"}
       THEN "handle_user_intent"
     ELSE IF latest # None /\ selecting_service /\ ContainsAny(content, SelectionWords)
       THEN "query_services"
     ELSE IF latest # None /\ selecting_branch /\ ContainsAny(content, SelectionWords)
       THEN "query_branches"
     ELSE IF latest # None /\ ~(selecting_branch \/ selecting_service)
             /\ (\/ Contains(content, <<"b","r","a","n","c","h">>)
                 \/ Contains(content, <<"s","a","l","o","n">>)
                 \/ Contains(content, <<"l","o","c","a","t","i","o","n">>))
       THEN "query_branches"
     ELSE IF latest # None /\ ~(selecting_branch \/ selecting_service)
             /\ (\/ Contains(content, <<"s","e","r","v","i","c","e">>)
                 \/ Contains(content, <<"t","r","e","a","t","m","e","n","t">>))
       THEN "query_services"
     ELSE IF ~Truthy(state.branch_id) THEN "query_branches"
     ELSE IF ~Truthy(state.service_id) THEN "query_services"
     ELSE IF ~Truthy(state.customer_name) \/ ~Truthy(state.customer_mobile)
       THEN "collect_customer_info"
     ELSE "confirm_details"

\* _route_user_intent: last_user_intent None (after start_over) takes the
\* default branch; "start_over" is mapped to the start node by the graph
_route_user_intent(state) ==
  LET intent == state.last_user_intent IN
  IF intent = Some("show_summary") THEN "show_summary"
  ELSE IF intent = Some("edit") THEN "handle_edit"
  ELSE IF intent = Some("start_over") THEN "start"
  ELSE IF intent = Some("confirm") THEN "confirm_details"
  ELSE IF intent = Some("cancel") THEN "END"
  ELSE "extract_info"

\* _route_after_edit
_route_after_edit(state) ==
  IF state.current_step \in {"query_branches", "query_services", "collect_customer_info"}
    THEN state.current_step
    ELSE "show_summary"

\* _check_booking_completeness without its test of missing_fields
check_booking_completeness_any_fields(state) ==
  LET latest == latest_user_message(state) IN
  IF latest # None /\ Contains(Lower(latest[1]), <<"c","o","n","f","i","r","m">>)
    THEN "create_booking"
    ELSE "END"

\* _check_booking_completeness (its update_missing_fields acts on the router's
\* view of the state; _confirm_details has just stored the same values)
_check_booking_completeness(state) ==
  LET s == update_missing_fields(state)
      latest == latest_user_message(s)
  IN IF latest # None
        /\ Contains(Lower(latest[1]), <<"c","o","n","f","i","r","m">>)
        /\ s.missing_fields = <<>>
       THEN "create_booking"
       ELSE "END"

\* _check_booking_success reading error_message in place of is_complete
check_booking_success_by_error(state) ==
  IF state.error_message = None THEN "END" ELSE "handle_error"

\* _check_booking_success
_check_booking_success(state) ==
  IF state.is_complete THEN "END" ELSE "handle_error"

\* The edges of _create_workflow_graph: the node that follows `node` in the
\* state `state` that node returned.  _check_if_options_shown and
\* _check_if_customer_info_collected return "end" on every path.
NextNode(node, state) ==
  CASE node = "start" -> "extract_info"
    [] node = "extract_info" -> _route_after_extraction(state)
    [] node = "handle_user_intent" -> _route_user_intent(state)
    [] node = "show_summary" -> "END"
    [] node = "handle_edit" -> _route_after_edit(state)
    [] node = "query_branches" -> "END"
    [] node = "query_services" -> "END"
    [] node = "collect_customer_info" -> "END"
    [] node = "confirm_details" -> _check_booking_completeness(state)
    [] node = "create_booking" -> _check_booking_success(state)
    [] node = "handle_error" -> "extract_info"

\* ------------------------------------------------------------ environment

\* the user messages of the model
UserMessages ==
  { <<"c","o","n","f","i","r","m">>,
    <<"s","t","a","r","t"," ","o","v","e","r">>,
    <<"c","a","n","c","e","l">>,
    <<"e","d","i","t"," ","b","r","a","n","c","h">>,
    <<"s","u","m","m","a","r","y">>,
    <<"I"," ","a","m"," ","J","a","n","e">>,
    <<"#","1"," ","c","o","n","f","i","r","m">> }

\* the messages of a user who asks about the services, picks options and
\* confirms
BookingMessages ==
  { <<"s","e","r","v","i","c","e","s">>,
    <<"#","1"," ","c","o","n","f","i","r","m">>,
    <<"y","e","s">> }

\* the messages of a user who picks options, confirms, and edits the branch
\* or the date
EditMessages ==
  { <<"#","1"," ","c","o","n","f","i","r","m">>,
    <<"e","d","i","t"," ","b","r","a","n","c","h">>,
    <<"e","d","i","t"," ","d","a","t","e">> }

\* the messages of a user who answers the lists by number or by name and
\* confirms
SelectMessages ==
  { <<"1">>,
    <<"E","a","s","y","S","a","l","o","n"," ","D","o","w","n","t","o","w","n">>,
    <<"H","a","i","r","c","u","t">>,
    <<"c","o","n","f","i","r","m">> }

\* the messages of a user who picks options, confirms, and edits the party
\* size
PartyMessages ==
  { <<"#","1"," ","c","o","n","f","i","r","m">>,
    <<"e","d","i","t"," ","p","e","o","p","l","e">> }

\* What the FieldExtractor (the LLM of _extract_with_llm) can answer: text that
\* json.loads rejects, or a JSON object
ExtractorAnswers ==
  { [malformed |-> TRUE, data |-> <<>>],
    [malformed |-> FALSE, data |-> <<>>],
    [malformed |-> FALSE,
     data |-> [customer_name |-> Some(<<"J","a","n","e">>),
               customer_mobile |-> Some(<<"5","5","5">>),
               booking_date |-> Some(<<"t","o","m","o","r","r","o","w">>),
               booking_time |-> Some(<<"2","p","m">>),
               next_step |-> Some(<<"c","o","l","l","e","c","t">>)]] }

\* the answers of an extractor that copies the user's own words for the date:
\* "someday" is a date dateparser.parse gives None for
DateAnswers ==
  { [malformed |-> TRUE, data |-> <<>>],
    [malformed |-> FALSE,
     data |-> [customer_name |-> Some(<<"J","a","n","e">>),
               customer_mobile |-> Some(<<"5","5","5">>),
               booking_date |-> Some(<<"s","o","m","e","d","a","y">>),
               booking_time |-> Some(<<"2","p","m">>)]],
    [malformed |-> FALSE,
     data |-> [booking_date |-> Some(<<"t","o","m","o","r","r","o","w">>)]] }

\* what start_workflow gets as initial_info from the chatbot's own extraction
\* (of its keys only customer_name and customer_mobile are state fields)
InitialInfos ==
  { <<>>,
    [customer_name |-> Some(<<"J","a","n","e">>),
     customer_mobile |-> Some(<<"5","5","5">>)] }

\* What the CatalogGateway can give, for branches and for services: None (the
\* request failed), an empty list, or the list.
BranchCatalogs ==
  { None, Some(<<>>),
    Some(<< [id |-> 11, name |-> <<"D","o","w","n","t","o","w","n">>],
            [id |-> 12, name |-> <<"U","p","t","o","w","n">>] >>) }

ServiceCatalogs ==
  { None, Some(<<>>),
    Some(<< [id |-> 21, name |-> <<"H","a","i","r","c","u","t">>],
            [id |-> 22, name |-> <<"S","p","a">>] >>) }

\* -------------------------------------------------------------------- state

VARIABLES
  active_booking_sessions, \* the registry entry of the one conversation key:
                           \* None, or Some(the session's stored state)
  pc,                      \* "idle", the node about to run, "END" (invoke has
                           \* returned) or "raised" (an exception left invoke)
  wf,                      \* the state of the running workflow; None when idle
  steps,                   \* nodes run by the current invoke
  turns,                   \* user messages handled so far
  sessions_created,        \* sessions started so far (names the session ids)
  turn,                    \* history of the current or last turn
  gw_history,              \* every createBooking call made, in order
  user_id,                 \* Chatbot.user_id: None or Some(socket id)
  connected,               \* the socket ids that have connected
  registry,                \* Chatbot.active_booking_sessions of the threaded
                           \* server: key -> index of its entry in session_data
  session_data,            \* the session entries ever stored, by identity
  calls,                   \* the handle_question calls, running and returned
  clock,                   \* datetime.now(), in minutes
  sweep,                   \* the cleanup_inactive_sessions call
  calc                     \* the last call of a helper function on its own:
                           \* its name, its arguments and its result

workflow_vars == << active_booking_sessions, pc, wf, steps, turns,
                    sessions_created, turn, gw_history >>

registry_vars == << user_id, connected, registry, session_data, calls, clock,
                    sweep >>

vars == << workflow_vars, registry_vars, calc >>

NoTurn ==
  [ message |-> <<>>, ran |-> <<>>, gw |-> None, outcome |-> "none",
    pre |-> None, final |-> None, removed |-> FALSE, extractor_failed |-> FALSE,
    extractor_ran |-> FALSE, matcher_ran |-> FALSE, selected |-> <<>>,
    catalog_failed |-> None ]

\* no cleanup_inactive_sessions call is running or has run
NoSweep ==
  [ pc |-> "idle", runs |-> 0, max_age_minutes |-> 0, current_time |-> 0,
    size |-> 0, visited |-> {}, sessions_to_remove |-> {}, result |-> 0,
    before |-> <<>>, deleted |-> {}, failed |-> FALSE ]

Init ==
  /\ active_booking_sessions = None
  /\ pc = "idle"
  /\ wf = None
  /\ steps = 0
  /\ turns = 0
  /\ sessions_created = 0
  /\ turn = NoTurn
  /\ gw_history = <<>>
  /\ user_id = None
  /\ connected = {}
  /\ registry = <<>>
  /\ session_data = <<>>
  /\ calls = <<>>
  /\ clock = 0
  /\ sweep = NoSweep
  /\ calc = [fn |-> "none"]

\* ------------------------------------------------------------------ actions

\* handle_question -> start_workflow: a booking request with no session for the
\* key.  The session is put into the registry when the workflow has returned.
StartWorkflowOn(messages, limit) ==
  /\ pc = "idle"
  /\ turns < limit
  /\ active_booking_sessions = None
  /\ \E m \in messages, info \in InitialInfos :
       LET s0 == initialize_booking_state(Some(sessions_created + 1))
           s1 == [k \in DOMAIN s0 |->
                    IF k \in DOMAIN info /\ Truthy(info[k]) THEN info[k] ELSE s0[k]]
       IN /\ wf' = Some(add_message(s1, "user", Strip(m)))
          /\ turn' = [NoTurn EXCEPT !.message = Strip(m), !.outcome = "running"]
  /\ sessions_created' = sessions_created + 1
  /\ turns' = turns + 1
  /\ pc' = "start"
  /\ steps' = 0
  /\ UNCHANGED << active_booking_sessions, gw_history >>
  /\ UNCHANGED << registry_vars, calc >>

\* handle_question -> continue_workflow: a message for the key's session
ContinueWorkflowOn(messages, limit) ==
  /\ pc = "idle"
  /\ turns < limit
  /\ active_booking_sessions # None
  /\ \E m \in messages :
       /\ wf' = Some([add_message(active_booking_sessions[1], "user", Strip(m))
                      EXCEPT !.current_step = "extract_info"])
       /\ turn' = [NoTurn EXCEPT !.message = Strip(m), !.outcome = "running",
                                 !.pre = active_booking_sessions]
  /\ turns' = turns + 1
  /\ pc' = "start"
  /\ steps' = 0
  /\ UNCHANGED << active_booking_sessions, sessions_created, gw_history >>
  /\ UNCHANGED << registry_vars, calc >>

\* what follows node `node` once it has returned `state`: the next node, END,
\* or GraphRecursionError when the run has used up its steps
Advance(node, state) ==
  LET next == NextNode(node, state) IN
  IF next = "END" THEN "END"
  ELSE IF steps + 1 >= RecursionLimit THEN "raised"
  ELSE next

\* the nodes that consult no collaborator
LocalNodes ==
  { "start", "handle_user_intent", "show_summary", "handle_edit",
    "collect_customer_info", "confirm_details", "handle_error" }

RunLocal(node, state) ==
  CASE node = "start" -> _start_node(state)
    [] node = "handle_user_intent" -> _handle_user_intent(state)
    [] node = "show_summary" -> _show_summary(state)
    [] node = "handle_edit" -> _handle_edit(state)
    [] node = "collect_customer_info" -> _collect_customer_info(state)
    [] node = "confirm_details" -> _confirm_details(state)
    [] node = "handle_error" -> _handle_error(state)

\* one node of the graph runs and the graph picks its successor
RunNode ==
  /\ pc \in LocalNodes
  /\ LET s == RunLocal(pc, wf[1]) IN
       /\ wf' = Some(s)
       /\ pc' = Advance(pc, s)
  /\ steps' = steps + 1
  /\ turn' = [turn EXCEPT !.ran = Append(@, pc)]
  /\ UNCHANGED << active_booking_sessions, turns, sessions_created, gw_history >>
  /\ UNCHANGED << registry_vars, calc >>

\* the extract_info node.  A malformed extractor answer makes _extract_with_llm
\* log the error and call self._extract_manually, which BookingWorkflow does
\* not define: AttributeError leaves the node and the run.
ExtractInfoOn(answers) ==
  /\ pc = "extract_info"
  /\ \E ans \in answers :
       IF ExtractorRuns(wf[1]) /\ ans.malformed
         THEN /\ wf' = Some(add_message([wf[1] EXCEPT !.current_step = "extract_info"],
                                       "system",
                                       Txt.extraction_error \o Err.no_extract_manually))
              /\ pc' = "raised"
              /\ turn' = [turn EXCEPT !.ran = Append(@, pc), !.extractor_failed = TRUE,
                                      !.extractor_ran = TRUE,
                                      !.matcher_ran = @ \/ MatcherRuns(wf[1])]
         ELSE LET s == _extract_booking_info(wf[1], ans.data) IN
              /\ wf' = Some(s)
              /\ pc' = Advance(pc, s)
              /\ turn' = [turn EXCEPT !.ran = Append(@, pc),
                                      !.extractor_ran = @ \/ ExtractorRuns(wf[1]),
                                      !.matcher_ran = @ \/ MatcherRuns(wf[1]),
                                      !.selected = @ \o ResolvedBy(pc, wf[1])]
  /\ steps' = steps + 1
  /\ UNCHANGED << active_booking_sessions, turns, sessions_created, gw_history >>
  /\ UNCHANGED << registry_vars, calc >>

ExtractInfo == ExtractInfoOn(ExtractorAnswers)

\* the query_branches node
QueryBranches ==
  /\ pc = "query_branches"
  /\ \E answer \in BranchCatalogs :
       LET s == _query_branches(wf[1], _fetch_salon_branches(answer)) IN
       /\ wf' = Some(s)
       /\ pc' = Advance(pc, s)
       /\ turn' = [turn EXCEPT !.ran = Append(@, pc),
                               !.matcher_ran =
                                  @ \/ (/\ wf[1].branch_options # <<>>
                                        /\ ~Truthy(wf[1].branch_id)
                                        /\ latest_user_message(wf[1]) # None),
                               !.selected = @ \o ResolvedBy(pc, wf[1]),
                               !.catalog_failed =
                                  IF ResolvedBy(pc, wf[1]) = <<>> /\ answer = None
                                    THEN wf ELSE @]
  /\ steps' = steps + 1
  /\ UNCHANGED << active_booking_sessions, turns, sessions_created, gw_history >>
  /\ UNCHANGED << registry_vars, calc >>

\* the query_services node
QueryServices ==
  /\ pc = "query_services"
  /\ \E catalog \in ServiceCatalogs :
       LET s == _query_services(wf[1], catalog) IN
       /\ wf' = Some(s)
       /\ pc' = Advance(pc, s)
       /\ turn' = [turn EXCEPT !.ran = Append(@, pc),
                               !.matcher_ran =
                                  @ \/ (/\ wf[1].service_options # <<>>
                                        /\ ~Truthy(wf[1].service_id)
                                        /\ latest_user_message(wf[1]) # None),
                               !.selected = @ \o ResolvedBy(pc, wf[1]),
                               !.catalog_failed =
                                  IF ResolvedBy(pc, wf[1]) = <<>> /\ catalog = None
                                    THEN wf ELSE @]
  /\ steps' = steps + 1
  /\ UNCHANGED << active_booking_sessions, turns, sessions_created, gw_history >>
  /\ UNCHANGED << registry_vars, calc >>

\* the create_booking node: the gateway is called unless building the request
\* raised
CreateBooking ==
  /\ pc = "create_booking"
  /\ \E resp \in GatewayResponses :
       LET s == _create_booking(wf[1], resp)
           called == ~BookingRequestRaises(wf[1])
       IN /\ wf' = Some(s)
          /\ pc' = Advance(pc, s)
          /\ turn' = [turn EXCEPT !.ran = Append(@, pc),
                                  !.gw = IF called THEN Some(resp) ELSE @]
          /\ gw_history' =
               IF called
                 THEN Append(gw_history,
                             [session_id |-> wf[1].session_id,
                              turn |-> turns,
                              request |-> booking_request(wf[1]),
                              fields |-> [f \in {RequiredFields[i] : i \in 1..Len(RequiredFields)}
                                            |-> wf[1][f]],
                              accepted |-> GatewayAccepted(resp)])
                 ELSE gw_history
  /\ steps' = steps + 1
  /\ UNCHANGED << active_booking_sessions, turns, sessions_created >>
  /\ UNCHANGED << registry_vars, calc >>

\* _is_booking_truly_complete trusting the is_complete flag alone
is_booking_complete_by_flag(state) ==
  state.is_complete

\* Chatbot._is_booking_truly_complete on the workflow's result
_is_booking_truly_complete(state) ==
  /\ state.is_complete
  /\ \/ \E i \in 1..Len(state.conversation_history) :
          /\ state.conversation_history[i].role = "assistant"
          /\ Contains(state.conversation_history[i].content, ChatbotConfirmedBanner)
     \/ state.current_step = "create_booking" /\ state.is_complete

\* handle_question after the workflow returned: the result becomes the session's
\* state, and the session is deleted when the booking is truly complete
FinishTurn ==
  /\ pc = "END"
  /\ active_booking_sessions' =
       IF _is_booking_truly_complete(wf[1]) THEN None ELSE wf
  /\ turn' = [turn EXCEPT !.outcome = "returned", !.final = wf,
                          !.removed = _is_booking_truly_complete(wf[1])]
  /\ pc' = "idle"
  /\ wf' = None
  /\ steps' = 0
  /\ UNCHANGED << turns, sessions_created, gw_history >>
  /\ UNCHANGED << registry_vars, calc >>

\* handle_question's except clause: the key's session is deleted
HandleException ==
  /\ pc = "raised"
  /\ active_booking_sessions' = None
  /\ turn' = [turn EXCEPT !.outcome = "raised", !.removed = TRUE]
  /\ pc' = "idle"
  /\ wf' = None
  /\ steps' = 0
  /\ UNCHANGED << turns, sessions_created, gw_history >>
  /\ UNCHANGED << registry_vars, calc >>

StartWorkflow == StartWorkflowOn(UserMessages, MaxTurns)
ContinueWorkflow == ContinueWorkflowOn(UserMessages, MaxTurns)

StartBooking == StartWorkflowOn(BookingMessages, MaxBookingTurns)
ContinueBooking == ContinueWorkflowOn(BookingMessages, MaxBookingTurns)

Next ==
  \/ StartWorkflow
  \/ ContinueWorkflow
  \/ RunNode
  \/ ExtractInfo
  \/ QueryBranches
  \/ QueryServices
  \/ CreateBooking
  \/ FinishTurn
  \/ HandleException

Spec == Init /\ [][Next]_vars

\* the same program with a user who only sends BookingMessages
NextBooking ==
  \/ StartBooking
  \/ ContinueBooking
  \/ RunNode
  \/ ExtractInfo
  \/ QueryBranches
  \/ QueryServices
  \/ CreateBooking
  \/ FinishTurn
  \/ HandleException

SpecBooking == Init /\ [][NextBooking]_vars

StartEdit == StartWorkflowOn(EditMessages, MaxBookingTurns)
ContinueEdit == ContinueWorkflowOn(EditMessages, MaxBookingTurns)

\* the same program with a user who only sends EditMessages
NextEdit ==
  \/ StartEdit
  \/ ContinueEdit
  \/ RunNode
  \/ ExtractInfo
  \/ QueryBranches
  \/ QueryServices
  \/ CreateBooking
  \/ FinishTurn
  \/ HandleException

SpecEdit == Init /\ [][NextEdit]_vars

StartSelect == StartWorkflowOn(SelectMessages, MaxBookingTurns)
ContinueSelect == ContinueWorkflowOn(SelectMessages, MaxBookingTurns)

\* the same program with a user who only sends SelectMessages
NextSelect ==
  \/ StartSelect
  \/ ContinueSelect
  \/ RunNode
  \/ ExtractInfo
  \/ QueryBranches
  \/ QueryServices
  \/ CreateBooking
  \/ FinishTurn
  \/ HandleException

SpecSelect == Init /\ [][NextSelect]_vars

StartParty == StartWorkflowOn(PartyMessages, MaxBookingTurns)
ContinueParty == ContinueWorkflowOn(PartyMessages, MaxBookingTurns)

\* the same program with a user who only sends PartyMessages
NextParty ==
  \/ StartParty
  \/ ContinueParty
  \/ RunNode
  \/ ExtractInfo
  \/ QueryBranches
  \/ QueryServices
  \/ CreateBooking
  \/ FinishTurn
  \/ HandleException

SpecParty == Init /\ [][NextParty]_vars

StartDates == StartWorkflowOn(BookingMessages, MaxBookingTurns)
ContinueDates == ContinueWorkflowOn(BookingMessages, MaxBookingTurns)
ExtractDates == ExtractInfoOn(DateAnswers)

\* the same program with a user who only sends BookingMessages and an
\* extractor that answers with DateAnswers
NextDates ==
  \/ StartDates
  \/ ContinueDates
  \/ RunNode
  \/ ExtractDates
  \/ QueryBranches
  \/ QueryServices
  \/ CreateBooking
  \/ FinishTurn
  \/ HandleException

SpecDates == Init /\ [][NextDates]_vars

\* ------------------------------------------- the registry, under the server
\* app.py serves every socket event on a thread of its own (socketio.run on
\* the werkzeug server), and all of them share the one Chatbot object
\* (langchain_chatbot).  Here the graph's run is one step with three outcomes:
\* it returned with the session kept, it returned with the booking truly
\* complete, or it raised.  A session's state is the set of the calls whose
\* results it holds.

\* the socket ids (request.sid) of the clients
Sids == { "A", "B" }

\* handler calls and sweeps in one run, and how often time passes
MaxCalls == 3
MaxSweeps == 1
MaxTicks == 2

\* cleanup_inactive_sessions' default max_age_minutes
DefaultMaxAgeMinutes == 30

\* how the workflow's run can end for handle_question
WorkflowOutcomes == { "kept", "complete", "raised" }

\* self.user_id or "default_session"
user_session_id ==
  IF user_id = None THEN "default_session" ELSE user_id[1]

\* del d[k], for a key that may be absent
Without(d, k) ==
  [x \in DOMAIN d \ {k} |-> d[x]]

\* d[k] = v
Put(d, k, v) ==
  [x \in DOMAIN d \cup {k} |-> IF x = k THEN v ELSE d[x]]

\* handle_question's except clause: the session under the key read now is
\* deleted
except_clause(d) ==
  Without(d, user_session_id)

\* app.py handle_connect: the one Chatbot is told the new client's id
handle_connect ==
  /\ \E sid \in Sids \ connected :
       /\ user_id' = Some(sid)
       /\ connected' = connected \cup {sid}
  /\ UNCHANGED << registry, session_data, calls, clock, sweep >>
  /\ UNCHANGED << workflow_vars, calc >>

\* app.py handle_chat_message: a client's message enters handle_question, which
\* first asks the classifier (is_appointment_request)
handle_chat_message ==
  /\ Len(calls) < MaxCalls
  /\ \E sid \in connected :
       calls' = Append(calls, [ sender |-> sid, pc |-> "is_appointment_request",
                                key |-> "", data |-> 0, base |-> {},
                                outcome |-> "none" ])
  /\ UNCHANGED << user_id, connected, registry, session_data, clock, sweep >>
  /\ UNCHANGED << workflow_vars, calc >>

\* handle_question from the classifier's answer to the workflow's call: the key
\* is read, the map is looked up, and the call goes to start_workflow, to
\* continue_workflow on the entry found (whose state dict is the run's input),
\* or to the agent
LookupSession ==
  /\ \E c \in 1..Len(calls), is_booking \in BOOLEAN :
       /\ calls[c].pc = "is_appointment_request"
       /\ LET key == user_session_id
              call == [calls[c] EXCEPT !.key = key]
          IN calls' =
               [calls EXCEPT ![c] =
                  IF is_booking \/ key \in DOMAIN registry
                    THEN IF key \notin DOMAIN registry
                           THEN [call EXCEPT !.pc = "start_workflow"]
                           ELSE [call EXCEPT !.pc = "continue_workflow",
                                             !.data = registry[key],
                                             !.base = session_data[registry[key]].state.applied]
                    ELSE [call EXCEPT !.pc = "agent"]]
  /\ UNCHANGED << user_id, connected, registry, session_data, clock, sweep >>
  /\ UNCHANGED << workflow_vars, calc >>

\* handle_question after start_workflow: the new entry is stored under the key
\* read at the lookup, and deleted again when the booking is truly complete
StartWorkflowReturns ==
  /\ \E c \in 1..Len(calls), outcome \in WorkflowOutcomes :
       /\ calls[c].pc = "start_workflow"
       /\ IF outcome = "raised"
            THEN /\ registry' = except_clause(registry)
                 /\ calls' = [calls EXCEPT ![c].pc = "done", ![c].outcome = "raised"]
                 /\ UNCHANGED session_data
            ELSE LET n == Len(session_data) + 1 IN
                 /\ session_data' =
                      Append(session_data,
                             [ state |-> [session_id |-> n, applied |-> {c}],
                               started_at |-> clock ])
                 /\ registry' = IF outcome = "complete"
                                  THEN Without(registry, calls[c].key)
                                  ELSE Put(registry, calls[c].key, n)
                 /\ calls' = [calls EXCEPT ![c].pc = "done", ![c].outcome = outcome,
                                           ![c].data = n]
  /\ UNCHANGED << user_id, connected, clock, sweep >>
  /\ UNCHANGED << workflow_vars, calc >>

\* handle_question after continue_workflow: the result becomes the state of the
\* entry read at the lookup, and the key is deleted when the booking is truly
\* complete (KeyError when it is gone, which the except clause handles)
ContinueWorkflowReturns ==
  /\ \E c \in 1..Len(calls), outcome \in WorkflowOutcomes :
       /\ calls[c].pc = "continue_workflow"
       /\ IF outcome = "raised"
            THEN /\ registry' = except_clause(registry)
                 /\ calls' = [calls EXCEPT ![c].pc = "done", ![c].outcome = "raised"]
                 /\ UNCHANGED session_data
            ELSE /\ session_data' =
                      [session_data EXCEPT ![calls[c].data].state.applied =
                                              calls[c].base \cup {c}]
                 /\ IF outcome = "kept"
                      THEN /\ UNCHANGED registry
                           /\ calls' = [calls EXCEPT ![c].pc = "done",
                                                     ![c].outcome = "kept"]
                      ELSE IF calls[c].key \in DOMAIN registry
                        THEN /\ registry' = Without(registry, calls[c].key)
                             /\ calls' = [calls EXCEPT ![c].pc = "done",
                                                       ![c].outcome = "complete"]
                        ELSE /\ registry' = except_clause(registry)
                             /\ calls' = [calls EXCEPT ![c].pc = "done",
                                                       ![c].outcome = "raised"]
  /\ UNCHANGED << user_id, connected, clock, sweep >>
  /\ UNCHANGED << workflow_vars, calc >>

\* handle_question's other branch: the agent answers, the map is left alone
AgentReturns ==
  /\ \E c \in 1..Len(calls) :
       /\ calls[c].pc = "agent"
       /\ calls' = [calls EXCEPT ![c].pc = "done", ![c].outcome = "answered"]
  /\ UNCHANGED << user_id, connected, registry, session_data, clock, sweep >>
  /\ UNCHANGED << workflow_vars, calc >>

\* time passes
Tick ==
  /\ clock < MaxTicks * DefaultMaxAgeMinutes
  /\ clock' = clock + DefaultMaxAgeMinutes
  /\ UNCHANGED << user_id, connected, registry, session_data, calls, sweep >>
  /\ UNCHANGED << workflow_vars, calc >>

\* cleanup_inactive_sessions is called with its default threshold: the time is
\* read and the iteration over the map's items begins
cleanup_begin ==
  /\ sweep.pc \in { "idle", "returned" }
  /\ sweep.runs < MaxSweeps
  /\ sweep' = [NoSweep EXCEPT !.pc = "scan", !.runs = sweep.runs + 1,
                           !.max_age_minutes = DefaultMaxAgeMinutes,
                           !.current_time = clock,
                           !.size = Cardinality(DOMAIN registry),
                           !.before = registry]
  /\ UNCHANGED << user_id, connected, registry, session_data, calls, clock >>
  /\ UNCHANGED << workflow_vars, calc >>

\* one step of the first loop: the dict iterator raises RuntimeError when the
\* map changed size since the loop began (the except clause returns 0), else it
\* gives the next item, whose age is compared with the threshold, or ends
cleanup_visit ==
  /\ sweep.pc = "scan"
  /\ IF Cardinality(DOMAIN registry) # sweep.size
       THEN sweep' = [sweep EXCEPT !.pc = "returned", !.result = 0, !.failed = TRUE]
       ELSE IF DOMAIN registry \ sweep.visited = {}
         THEN sweep' = [sweep EXCEPT !.pc = "remove"]
         ELSE \E k \in DOMAIN registry \ sweep.visited :
                LET age_minutes == sweep.current_time - session_data[registry[k]].started_at
                IN sweep' = [sweep EXCEPT
                               !.visited = @ \cup {k},
                               !.sessions_to_remove =
                                  IF age_minutes > sweep.max_age_minutes
                                    THEN @ \cup {k} ELSE @]
  /\ UNCHANGED << user_id, connected, registry, session_data, calls, clock >>
  /\ UNCHANGED << workflow_vars, calc >>

\* one step of the second loop: the next marked key is deleted (KeyError when it
\* is gone: the except clause returns 0), and after the last the number of
\* marked keys is returned
cleanup_delete ==
  /\ sweep.pc = "remove"
  /\ LET left == sweep.sessions_to_remove \ { k \in Sids \cup {"default_session"} :
                                                 \E i \in sweep.deleted : i[1] = k }
     IN IF left = {}
          THEN /\ sweep' = [sweep EXCEPT !.pc = "returned",
                                         !.result = Cardinality(sweep.sessions_to_remove)]
               /\ UNCHANGED registry
          ELSE \E k \in left :
                 IF k \in DOMAIN registry
                   THEN /\ registry' = Without(registry, k)
                        /\ sweep' = [sweep EXCEPT !.deleted = @ \cup {<<k, registry[k]>>}]
                   ELSE /\ sweep' = [sweep EXCEPT !.pc = "returned", !.result = 0,
                                                  !.failed = TRUE]
                        /\ UNCHANGED registry
  /\ UNCHANGED << user_id, connected, session_data, calls, clock >>
  /\ UNCHANGED << workflow_vars, calc >>

NextRegistry ==
  \/ handle_connect
  \/ handle_chat_message
  \/ LookupSession
  \/ StartWorkflowReturns
  \/ ContinueWorkflowReturns
  \/ AgentReturns
  \/ Tick
  \/ cleanup_begin
  \/ cleanup_visit
  \/ cleanup_delete

SpecRegistry == Init /\ [][NextRegistry]_vars

\* ------------------------------------------------ the helpers on their own
\* Each action applies one helper function to arguments drawn from a bounded
\* set and records the call in calc.  The helpers keep nothing from one call
\* to the next, so a behaviour is one call.

\* the longest option list given to _parse_selection
MaxOptions == 6

\* the options the lists are cut from
OptionPool ==
  << [id |-> 31, name |-> <<"D","o","w","n","t","o","w","n">>],
     [id |-> 32, name |-> <<"U","p","t","o","w","n">>],
     [id |-> 33, name |-> <<"H","a","i","r","c","u","t">>],
     [id |-> 34, name |-> <<"H","a","i","r">>],
     [id |-> 35, name |-> <<"S","p","a">>],
     [id |-> 36, name |-> <<"N","a","i","l","s">>],
     [id |-> 37, name |-> <<"C","o","l","o","r">>] >>

\* every run of at most MaxOptions neighbouring options of the pool, and the
\* empty list
OptionLists ==
  { l \in { SubSeq(OptionPool, a, b) : a \in 1..Len(OptionPool),
                                       b \in 0..Len(OptionPool) } :
      Len(l) <= MaxOptions }

\* the replies given to _parse_selection
MatchTexts ==
  { <<"1">>,
    <<"2">>,
    <<"3">>,
    <<"5">>,
    <<"6">>,
    <<"7">>,
    <<"1","2">>,
    <<" ","2"," ">>,
    <<"o","p","t","i","o","n"," ","2">>,
    <<"#","1"," ","u","p","t","o","w","n">>,
    <<"U","p","t","o","w","n"," ","p","l","e","a","s","e">>,
    <<"t","h","e"," ","D","O","W","N","T","O","W","N"," ","o","n","e">>,
    <<"h","a","i","r","c","u","t">>,
    <<"h","e","l","l","o">>,
    <<"(","3",")">>,
    <<"n","u","m","b","e","r"," ","4">> }

\* BookingWorkflow._parse_selection is called
ParseSelection ==
  /\ calc.fn = "none"
  /\ \E text \in MatchTexts, options \in OptionLists :
       calc' = [ fn |-> "_parse_selection", text |-> text, options |-> options,
                 result |-> _parse_selection(text, options) ]
  /\ UNCHANGED << workflow_vars, registry_vars >>

\* the messages given to detect_user_intent
IntentTexts ==
  { <<"e","d","i","t"," ","p","h","o","n","e">>,
    <<"s","h","o","w"," ","m","e"," ","t","h","e"," ","s","u","m","m","a","r","y">>,
    <<"c","o","n","f","i","r","m">>,
    <<"I"," ","w","a","n","t"," ","t","o"," ","b","o","o","k"," ","a"," ","h","a","i","r","c","u","t">>,
    <<"c","h","a","n","g","e"," ","a","n","d"," ","c","a","n","c","e","l">>,
    <<"s","h","o","w"," ","s","t","a","t","u","s"," ","t","h","e","n"," ","r","e","s","t","a","r","t">>,
    <<"r","e","s","e","t"," ","a","n","d"," ","c","o","n","f","i","r","m"," ","b","o","o","k","i","n","g">>,
    <<"y","e","s"," ","c","o","n","f","i","r","m"," ","o","r"," ","c","a","n","c","e","l">>,
    <<"y","e","s"," ","p","l","e","a","s","e">>,
    <<" "," ","O","K"," "," ">>,
    <<"o","k"," ","c","a","n","c","e","l">>,
    <<"g","o"," ","a","h","e","a","d">>,
    <<"s","t","o","p">>,
    <<"h","e","l","l","o">>,
    <<"C","o","n","f","i","r","m"," ","A","p","p","o","i","n","t","m","e","n","t">>,
    <<"r","e","v","i","e","w"," ","e","d","i","t">>,
    <<"p","r","o","c","e","e","d">>,
    <<"s","t","a","r","t"," ","o","v","e","r">>,
    <<"y","e","s">>,
    <<"b","e","g","i","n"," ","a","g","a","i","n"," ","o","r"," ","q","u","i","t">> }

\* detect_user_intent is called
DetectUserIntent ==
  /\ calc.fn = "none"
  /\ \E text \in IntentTexts :
       calc' = [ fn |-> "detect_user_intent", text |-> text,
                 result |-> detect_user_intent(text) ]
  /\ UNCHANGED << workflow_vars, registry_vars >>

\* the values the extractor's JSON can hold for a key: null, "", "Unknown",
\* or a text
ExtractedValues ==
  { None, Some(<<>>), Some(Unknown), Some(<<"n","e","w">>) }

\* the JSON objects the extractor returns to _extract_with_llm
ExtractedObjects ==
  { <<>> }
    \cup { [customer_name |-> a, booking_date |-> b] :
             a \in ExtractedValues, b \in ExtractedValues }
    \cup { [customer_mobile |-> a, booking_time |-> b,
            next_step |-> Some(<<"c","o","l","l","e","c","t">>)] :
             a \in ExtractedValues, b \in ExtractedValues }
    \cup { [branch_id |-> a, service_id |-> b] :
             a \in ExtractedValues, b \in ExtractedValues }

\* the states _extract_with_llm is given: nothing known yet, and every field
\* known
MergeStates ==
  { initialize_booking_state(Some(1)),
    [initialize_booking_state(Some(1)) EXCEPT
       !.customer_name = Some(<<"J","a","n","e">>),
       !.customer_mobile = Some(<<"5","5","5">>),
       !.branch_id = Some(<<"1","1">>),
       !.service_id = Some(<<"2","1">>),
       !.booking_date = Some(<<"t","o","m","o","r","r","o","w">>),
       !.booking_time = Some(<<"2","p","m">>)] }

\* BookingWorkflow._extract_with_llm merges an answer that parses
ExtractWithLLM ==
  /\ calc.fn = "none"
  /\ \E state \in MergeStates, data \in ExtractedObjects :
       calc' = [ fn |-> "_extract_with_llm", state |-> state, data |-> data,
                 result |-> _extract_with_llm(state, data) ]
  /\ UNCHANGED << workflow_vars, registry_vars >>

\* --------------------------------------------------------- booking_manager

\* BookingManager.max_retries
max_retries == 3

\* datetime.strptime(date, "%Y-%m-%d") accepts the text
IsApiDate(s) ==
  /\ Len(s) = 10
  /\ s[5] = "-" /\ s[8] = "-"
  /\ \A i \in {1, 2, 3, 4, 6, 7, 9, 10} : \E d \in 1..10 : s[i] = Digits[d]

\* _validate_booking_request, for a request whose salon_id, time and
\* customer_info are in order; `future` says whether date and time lie after
\* datetime.now()
_validate_booking_request(request) ==
  /\ Truthy(request.service_id)
  /\ Truthy(request.date)
  /\ IsApiDate(request.date[1])
  /\ request.future

\* what one requests.post of _make_booking_api_call ends in: a
\* RequestException (connection error, timeout, HTTP error status), an answer
\* with "data", or an answer without
AttemptOutcomes == { "error", "data", "nodata" }

\* the outcomes the attempts of one call would have, one per attempt
HttpRuns == [1..max_retries -> AttemptOutcomes]

\* the retry loop of _make_booking_api_call from attempt i on: "raised" when
\* the last attempt fails too
RECURSIVE attempt_from(_, _)
attempt_from(http, i) ==
  IF http[i] = "data" THEN "data"
  ELSE IF http[i] = "nodata" THEN "nodata"
  ELSE IF i = max_retries THEN "raised"
  ELSE attempt_from(http, i + 1)

\* _make_booking_api_call: building the payload raises TypeError on int(None)
\* for a branch_id or staff_id that is None; whatever is raised, there or by
\* the last attempt, is caught by the outer except, which returns the mock
\* answer with success True
_make_booking_api_call(booking_data, http) ==
  IF booking_data.branch_id = None \/ booking_data.staff_id = None
    THEN [success |-> TRUE, mock |-> TRUE, attempts |-> 0]
  ELSE LET end == attempt_from(http, 1)
           made == CHOOSE n \in 1..max_retries :
                     /\ \A i \in 1..(n - 1) : http[i] = "error"
                     /\ http[n] # "error" \/ n = max_retries
       IN IF end = "data" THEN [success |-> TRUE, mock |-> FALSE, attempts |-> made]
          ELSE IF end = "nodata"
            THEN [success |-> FALSE, mock |-> FALSE, attempts |-> made]
          ELSE [success |-> TRUE, mock |-> TRUE, attempts |-> made]

\* the texts of _generate_booking_id and _generate_confirmation_code, cut to
\* their prefixes
GeneratedBookingId == <<"E","S","B">>
GeneratedConfirmationCode == <<"E","C">>

\* BookingManager.create_booking: the BookingResponse, with the answer of
\* _make_booking_api_call kept beside it
create_booking(request, http) ==
  IF ~_validate_booking_request(request)
    THEN [success |-> FALSE, booking_id |-> None, confirmation_code |-> None,
          error_code |-> Some("VALIDATION_ERROR"), api |-> None]
  ELSE LET api_response == _make_booking_api_call(request, http) IN
       IF api_response.success
         THEN [success |-> TRUE, booking_id |-> Some(GeneratedBookingId),
               confirmation_code |-> Some(GeneratedConfirmationCode),
               error_code |-> None, api |-> Some(api_response)]
         ELSE [success |-> FALSE, booking_id |-> None, confirmation_code |-> None,
               error_code |-> Some("API_ERROR"), api |-> Some(api_response)]

\* the requests create_booking is given: _book_appointment passes no branch_id
\* and the staff_id its parser found, if any
ManagerRequests ==
  [ service_id : { None, Some(<<"2","1">>) },
    branch_id : { None, Some(<<"1","1">>) },
    staff_id : { None, Some(<<"5">>) },
    date : { Some(<<"2","0","2","6","-","1","1","-","0","2">>),
             Some(<<"t","o","m","o","r","r","o","w">>) },
    future : BOOLEAN ]

\* BookingManager.create_booking is called
CreateBookingCall ==
  /\ calc.fn = "none"
  /\ \E request \in ManagerRequests, http \in HttpRuns :
       calc' = [ fn |-> "create_booking", request |-> request, http |-> http,
                 result |-> create_booking(request, http) ]
  /\ UNCHANGED << workflow_vars, registry_vars >>

NextHelpers ==
  \/ ParseSelection
  \/ DetectUserIntent
  \/ ExtractWithLLM
  \/ CreateBookingCall

SpecHelpers == Init /\ [][NextHelpers]_vars

\* ------------------------------------------------------------------- claims

\* the session states that exist: the running workflow's and the registry's
SessionStates ==
  { wf[i] : i \in 1..Len(wf) }
    \cup { active_booking_sessions[i] : i \in 1..Len(active_booking_sessions) }

\* a turn has ended and the program waits for the next user message
TurnEnded == pc = "idle" /\ turn.outcome # "none"

\* the log entries with the given role and content
Entries(log, role, content) ==
  { i \in 1..Len(log) : log[i].role = role /\ log[i].content = content }

\* node n ran in the current or last turn
Ran(n) == \E i \in 1..Len(turn.ran) : turn.ran[i] = n

\* the createBooking call of the current or last turn failed: building the
\* request raised, or the gateway answered nothing, a failure payload, or
\* something that made reading the answer raise
BookingCallFailed ==
  Ran("create_booking") /\ (turn.gw = None \/ ~GatewayAccepted(turn.gw[1]))

\* C1: in every reachable session state, is_complete is true only if a
\* BookingGateway call made for that session has returned success.
C1_CompleteOnlyAfterGatewaySuccess ==
  \A s \in SessionStates :
    s.is_complete =>
      \E i \in 1..Len(gw_history) :
        gw_history[i].session_id = s.session_id /\ gw_history[i].accepted

\* C2: when CreateBooking ran and the gateway answered with a non-empty
\* confirmation code, the turn ends with the booking-confirmed message
\* appended, is_complete true and the session removed from the registry.
C2_AcceptedBookingCompletesTurn ==
  (TurnEnded /\ turn.gw # None /\ GatewayAccepted(turn.gw[1])) =>
    /\ turn.final # None
    /\ Entries(turn.final[1].conversation_history, "assistant",
               Txt.booking_confirmed) # {}
    /\ turn.final[1].is_complete
    /\ active_booking_sessions = None

\* C3: when CreateBooking ran and the call failed, the HandleError step has
\* run by the end of that turn.
C3_FailedBookingRunsHandleError ==
  (TurnEnded /\ BookingCallFailed) => Ran("handle_error")

\* C4: when the gateway failed with a message containing "date", the turn ends
\* with booking_date and booking_time cleared and listed in missing_fields,
\* is_complete false and the session still in the registry.
C4_DateFailureClearsDateAndTime ==
  (/\ TurnEnded
   /\ turn.gw # None
   /\ turn.gw[1].message # None
   /\ Contains(Lower(turn.gw[1].message[1]), <<"d","a","t","e">>)) =>
    /\ active_booking_sessions # None
    /\ active_booking_sessions[1].booking_date = None
    /\ active_booking_sessions[1].booking_time = None
    /\ \E i \in 1..Len(active_booking_sessions[1].missing_fields) :
         active_booking_sessions[1].missing_fields[i] = "booking_date"
    /\ \E i \in 1..Len(active_booking_sessions[1].missing_fields) :
         active_booking_sessions[1].missing_fields[i] = "booking_time"
    /\ ~active_booking_sessions[1].is_complete

\* C5: at the end of every turn the session's error_message is empty.
C5_ErrorMessageClearedAtTurnEnd ==
  (TurnEnded /\ active_booking_sessions # None) =>
    active_booking_sessions[1].error_message = None

\* C6: once the gateway has accepted a createBooking call of a session, no
\* later turn of that session issues another createBooking call.
C6_AtMostOneAcceptedBooking ==
  \A i, j \in 1..Len(gw_history) :
    (/\ i < j
     /\ gw_history[i].session_id = gw_history[j].session_id
     /\ gw_history[i].accepted) => gw_history[j].turn = gw_history[i].turn

\* C7: every createBooking call is made with all six required fields truthy,
\* and the branch and service ids submitted are the selected ones, not the
\* fallback ids.
C7_GatewayCalledWithAllFields ==
  \A i \in 1..Len(gw_history) :
    /\ \A f \in DOMAIN gw_history[i].fields : Truthy(gw_history[i].fields[f])
    /\ gw_history[i].request.branch_id = ParseInt(gw_history[i].fields.branch_id[1])
    /\ gw_history[i].request.service_id = ParseInt(gw_history[i].fields.service_id[1])

\* C7 witness: the gateway has been called
C7_Witness == Len(gw_history) > 0

\* C8 as stated: in every reachable session state, the freshly initialised one
\* included, missing_fields is exactly the list of the required fields whose
\* value is falsy.
C8_MissingFieldsExact ==
  \A s \in SessionStates : s.missing_fields = get_missing_fields(s)

\* C8 as amended: at the end of every turn that leaves the session in the
\* registry, the stored missing_fields is exactly the list of the required
\* fields whose value is falsy.
C8_MissingFieldsExactAtTurnEnd ==
  (TurnEnded /\ active_booking_sessions # None) =>
    active_booking_sessions[1].missing_fields
      = get_missing_fields(active_booking_sessions[1])

\* C8 witness: a turn that cleared a selected branch by an edit has ended, and
\* branch_id is listed as missing
C8_Witness ==
  /\ TurnEnded
  /\ active_booking_sessions # None
  /\ turn.pre # None
  /\ Truthy(turn.pre[1].branch_id)
  /\ Ran("handle_edit")
  /\ ~Truthy(active_booking_sessions[1].branch_id)
  /\ \E i \in 1..Len(active_booking_sessions[1].missing_fields) :
       active_booking_sessions[1].missing_fields[i] = "branch_id"

\* C9: every tick reaches the end of the turn: no run of the workflow uses up
\* the steps the graph library allows it.
C9_EveryTickReachesEnd ==
  ~(pc = "raised" /\ steps >= RecursionLimit)

\* C10: a StartOver turn (in which the extractor did not fail) ends with the
\* session still registered under the same session_id, the earlier log kept,
\* one restart acknowledgement appended and every other field at its initial
\* value.
C10_StartOverResetsAndEndsTurn ==
  (/\ TurnEnded
   /\ turn.pre # None
   /\ ~turn.extractor_failed
   /\ detect_user_intent(turn.message) = "start_over") =>
    /\ active_booking_sessions # None
    /\ LET now == active_booking_sessions[1]
           before == turn.pre[1]
           log == now.conversation_history
       IN /\ now.session_id = before.session_id
          /\ Len(log) >= Len(before.conversation_history)
          /\ SubSeq(log, 1, Len(before.conversation_history))
               = before.conversation_history
          /\ Cardinality({ i \in Len(before.conversation_history) + 1 .. Len(log) :
                             log[i].role = "assistant"
                             /\ log[i].content = Txt.start_over }) = 1
          /\ [now EXCEPT !.conversation_history = <<>>]
               = [initialize_booking_state(before.session_id)
                    EXCEPT !.current_step = now.current_step]

\* the intents that _route_after_extraction hands to handle_user_intent
ControlIntents == {"edit", "show_summary", "start_over", "confirm", "cancel"}

\* C11: in a turn whose message is classified as Edit, ShowSummary, StartOver,
\* Confirm or Cancel, neither the SelectionMatcher nor the FieldExtractor is
\* run on that message.
C11_ControlCommandSkipsExtraction ==
  (turn.outcome # "none" /\ detect_user_intent(turn.message) \in ControlIntents) =>
    ~turn.extractor_ran /\ ~turn.matcher_ran

\* extract_info was the last node to run and the graph has chosen its successor
AfterExtraction ==
  /\ pc \notin {"idle", "END", "raised"}
  /\ turn.ran # <<>>
  /\ turn.ran[Len(turn.ran)] = "extract_info"

\* the step the field state alone selects: the first of branch, service,
\* customer data that is missing, else the confirmation
FieldPrecedence(state) ==
  IF ~Truthy(state.branch_id) THEN "query_branches"
  ELSE IF ~Truthy(state.service_id) THEN "query_services"
  ELSE IF ~Truthy(state.customer_name) \/ ~Truthy(state.customer_mobile)
    THEN "collect_customer_info"
  ELSE "confirm_details"

\* the message makes the router pick a step before it looks at the fields: a
\* selection word while options of an unset field are cached, or, with no
\* such options, a word that asks for the branches or for the services
MessageNamesStep(state) ==
  LET content == Lower(latest_user_message(state)[1])
      selecting == \/ state.branch_options # <<>> /\ ~Truthy(state.branch_id)
                   \/ state.service_options # <<>> /\ ~Truthy(state.service_id)
  IN IF selecting
       THEN ContainsAny(content, SelectionWords)
       ELSE ContainsAny(content, << <<"b","r","a","n","c","h">>,
                                    <<"s","a","l","o","n">>,
                                    <<"l","o","c","a","t","i","o","n">>,
                                    <<"s","e","r","v","i","c","e">>,
                                    <<"t","r","e","a","t","m","e","n","t">> >>)

\* C12 as stated: in every ProvideInfo turn the step chosen after extraction
\* is the one the field state alone selects: QueryBranches when branch_id is
\* unset, else QueryServices when service_id is unset, else
\* CollectCustomerInfo when name or phone is missing, else ConfirmDetails.
C12_RouteByFieldPrecedence ==
  (AfterExtraction /\ detect_user_intent(turn.message) = "provide_info") =>
    pc = FieldPrecedence(wf[1])

\* C12 as amended: the field precedence decides the step of every ProvideInfo
\* turn whose message does not itself name a step (no selection word while
\* options are awaited, no word asking for branches or services otherwise).
C12_RouteByFieldPrecedenceUnlessNamed ==
  (/\ AfterExtraction
   /\ detect_user_intent(turn.message) = "provide_info"
   /\ ~MessageNamesStep(wf[1])) =>
    pc = FieldPrecedence(wf[1])

\* C12 witness: a ProvideInfo message that names no step is routed to the
\* services because the branch is selected and the service is not
C12_Witness ==
  /\ AfterExtraction
  /\ detect_user_intent(turn.message) = "provide_info"
  /\ ~MessageNamesStep(wf[1])
  /\ Truthy(wf[1].branch_id)
  /\ pc = "query_services"

\* C13: in a turn whose message is classified as Confirm, CreateBooking is
\* executed when the confirmation step finds no field missing, and the
\* gateway is not called when it finds fields missing.
C13_ConfirmWithAllFieldsBooks ==
  (/\ TurnEnded
   /\ turn.outcome = "returned"
   /\ detect_user_intent(turn.message) = "confirm"
   /\ Ran("confirm_details")) =>
    IF turn.final[1].missing_fields = <<>>
      THEN Ran("create_booking")
      ELSE ~Ran("create_booking") /\ turn.gw = None

\* C14: a turn whose message is classified as Cancel, once it has returned,
\* has appended the cancellation acknowledgement, left current_step
\* "cancelled", and removed the session from the registry.
C14_CancelRemovesSession ==
  (/\ TurnEnded
   /\ turn.outcome = "returned"
   /\ detect_user_intent(turn.message) = "cancel") =>
    /\ Entries(turn.final[1].conversation_history, "assistant", Txt.cancelled) # {}
    /\ turn.final[1].current_step = "cancelled"
    /\ active_booking_sessions = None

\* C15: a turn that returns without raising removes the session from the
\* registry only if the BookingGateway accepted the booking in that turn;
\* otherwise (the turn waits for input, reached ConfirmDetails with nothing
\* missing, or the booking call failed) the registry holds the turn's result.
C15_RemovedOnlyAfterGatewaySuccess ==
  (/\ TurnEnded
   /\ turn.outcome = "returned"
   /\ ~(turn.gw # None /\ GatewayAccepted(turn.gw[1]))) =>
    /\ ~turn.removed
    /\ active_booking_sessions = turn.final

\* C15 witness: a turn has returned and removed the session, the gateway
\* having accepted the booking in that turn
C15_Witness ==
  /\ TurnEnded
  /\ turn.outcome = "returned"
  /\ turn.removed
  /\ active_booking_sessions = None
  /\ turn.gw # None
  /\ GatewayAccepted(turn.gw[1])

\* a field of the state is listed in its missing_fields
ListedMissing(state, f) ==
  \E i \in 1..Len(state.missing_fields) : state.missing_fields[i] = f

\* C16: a turn with the message "edit branch" that starts with branch and
\* service both selected ends with branch_id and branch_options cleared,
\* current_step = query_branches, branch_id listed in missing_fields, and
\* service_id, booking_date, booking_time, customer_name and customer_mobile
\* unchanged.
C16_EditBranchKeepsOtherFields ==
  (/\ TurnEnded
   /\ turn.outcome = "returned"
   /\ turn.message = <<"e","d","i","t"," ","b","r","a","n","c","h">>
   /\ turn.pre # None
   /\ Truthy(turn.pre[1].branch_id)
   /\ Truthy(turn.pre[1].service_id)) =>
    LET now == turn.final[1]
        before == turn.pre[1]
    IN /\ now.branch_id = None
       /\ now.branch_options = <<>>
       /\ now.current_step = "query_branches"
       /\ ListedMissing(now, "branch_id")
       /\ \A f \in {"service_id", "booking_date", "booking_time",
                     "customer_name", "customer_mobile"} : now[f] = before[f]

\* the booking fields, the options caches, missing_fields and is_complete
SummaryFrame ==
  { "customer_name", "customer_mobile", "total_customer", "branch_id",
    "service_id", "booking_date", "booking_time", "branch_options",
    "service_options", "missing_fields", "is_complete" }

\* C17: a ShowSummary turn changes no booking field, no options cache, not
\* missing_fields and not is_complete, and leaves current_step = show_summary;
\* a ShowSummary turn that follows a ShowSummary turn changes nothing but the
\* log.
C17_ShowSummaryIdempotent ==
  (/\ TurnEnded
   /\ turn.outcome = "returned"
   /\ turn.pre # None
   /\ detect_user_intent(turn.message) = "show_summary") =>
    LET now == turn.final[1]
        before == turn.pre[1]
    IN /\ \A f \in SummaryFrame : now[f] = before[f]
       /\ now.current_step = "show_summary"
       /\ before.current_step = "show_summary" =>
            [now EXCEPT !.conversation_history = <<>>]
              = [before EXCEPT !.conversation_history = <<>>]

\* the system note a resolved selection appends
SelectionNote(sel) ==
  (IF sel.field = "branch_id" THEN Txt.selected_branch ELSE Txt.selected_service)
    \o sel.option.name

\* what every resolved selection of a returned turn has done by the end of
\* the turn: the id stored, the note appended, missing_fields recomputed
SelectionStored(sel, now) ==
  /\ now[sel.field] = Some(Str(sel.option.id))
  /\ Entries(now.conversation_history, "system", SelectionNote(sel)) # {}
  /\ now.missing_fields = get_missing_fields(now)
  /\ ~ListedMissing(now, sel.field)

C19_CollectFallsThroughToConfirm ==
  (TurnEnded /\ turn.outcome = "returned" /\ Ran("collect_customer_info")) =>
    LET now == turn.final[1]
        log == now.conversation_history
    IN IF Truthy(now.customer_name) /\ Truthy(now.customer_mobile)
         THEN \E i, j \in 1..Len(turn.ran) :
                /\ i < j
                /\ turn.ran[i] = "collect_customer_info"
                /\ turn.ran[j] = "confirm_details"
         ELSE /\ turn.ran[Len(turn.ran)] = "collect_customer_info"
              /\ log[Len(log)] = [role |-> "assistant",
                                  content |-> Txt.need_info \o missing_str(now)]

\* the assistant messages the last turn appended to the log
AssistantMessagesOfTurn ==
  LET log == turn.final[1].conversation_history
      old == IF turn.pre = None THEN 0 ELSE Len(turn.pre[1].conversation_history)
  IN { i \in old + 1 .. Len(log) : log[i].role = "assistant" }

\* C20: every turn that returns without having run CreateBooking has appended
\* exactly one assistant message to the log.
C20_OneAssistantMessagePerTurn ==
  (TurnEnded /\ turn.outcome = "returned" /\ ~Ran("create_booking")) =>
    Cardinality(AssistantMessagesOfTurn) = 1

\* the six required fields, total_customer and the two options caches
BookingFields ==
  { "customer_name", "customer_mobile", "total_customer", "branch_id",
    "service_id", "booking_date", "booking_time", "branch_options",
    "service_options" }

\* C21: a turn in which the FieldExtractor returned malformed output ends
\* without an exception: it returns, the session stays in the registry, the
\* turn has appended an assistant reply, and no booking field differs from
\* its value before the turn.
C21_MalformedExtractionIsNoFields ==
  (TurnEnded /\ turn.extractor_failed) =>
    /\ turn.outcome = "returned"
    /\ active_booking_sessions # None
    /\ turn.final # None
    /\ AssistantMessagesOfTurn # {}
    /\ turn.pre # None =>
         \A f \in BookingFields : turn.final[1][f] = turn.pre[1][f]

\* C22: a returned turn in which a CatalogGateway call failed has appended an
\* assistant message, has changed no booking field and no options cache in
\* the query step, and has left current_step at that query step.
C22_CatalogFailureChangesNothing ==
  (TurnEnded /\ turn.outcome = "returned" /\ turn.catalog_failed # None) =>
    /\ AssistantMessagesOfTurn # {}
    /\ \A f \in BookingFields : turn.final[1][f] = turn.catalog_failed[1][f]
    /\ turn.final[1].current_step = turn.ran[Len(turn.ran)]

\* the keys of the map under which entry n is stored
KeysOf(n) ==
  { k \in DOMAIN registry : registry[k] = n }

\* the calls that have returned
Returned ==
  { c \in 1..Len(calls) : calls[c].pc = "done" }

\* C23: once a call of handle_question has ended in its except clause, the
\* session it was working on is stored under no key of the registry, so no
\* session that a failed tick has touched survives it.
C23_FailedTickLeavesNoSession ==
  \A c \in Returned :
     (calls[c].outcome = "raised" /\ calls[c].data # 0) => KeysOf(calls[c].data) = {}

\* the calls that have read their key
PastLookup ==
  { c \in 1..Len(calls) : calls[c].pc # "is_appointment_request" }

\* C24: a message is handled under the key of the client that sent it, so it
\* reads, creates, changes and deletes only that client's session.
C24_MessageHandledUnderSendersKey ==
  \A c \in PastLookup :
     /\ calls[c].key = calls[c].sender
     /\ calls[c].data # 0 => KeysOf(calls[c].data) \subseteq {calls[c].sender}

\* C25: the operations on the session map exclude one another: while the sweep
\* is inside its iteration over the map, no handler creates or deletes an
\* entry, so the map is as the sweep found it.
C25_MapUntouchedDuringSweepIteration ==
  sweep.pc = "scan" => registry = sweep.before

\* the calls whose workflow is running, by key
Ticking(k) ==
  { c \in 1..Len(calls) :
      calls[c].pc \in {"start_workflow", "continue_workflow"} /\ calls[c].key = k }

\* C26: the ticks of one session key never overlap, every returned tick's result
\* is held by the session it ran on, and at most one session at a time is being
\* created for a key.
C26_TicksOfOneKeyAreSequential ==
  /\ \A k \in Sids \cup {"default_session"} : Cardinality(Ticking(k)) <= 1
  /\ \A c \in Returned :
       (calls[c].outcome = "kept" /\ Ticking(calls[c].key) = {}) =>
          c \in session_data[calls[c].data].state.applied

\* log a begins log b
IsPrefix(a, b) ==
  /\ Len(a) <= Len(b)
  /\ \A i \in 1..Len(a) : b[i] = a[i]

\* the session's log before the current or last turn
LogBefore ==
  IF turn.pre = None THEN <<>> ELSE turn.pre[1].conversation_history

\* what the turn begins with: the log before it and then the user's message
LogWithMessage ==
  Append(LogBefore, [role |-> "user", content |-> turn.message])

\* C27: the conversation log of a session only grows: during and after every
\* turn the log begins with the log before the turn followed by the turn's user
\* message, so nothing is removed or reordered and the user's message comes
\* before every assistant or system entry of its turn.
C27_LogAppendOnly ==
  /\ \A i \in 1..Len(wf) : IsPrefix(LogWithMessage, wf[i].conversation_history)
  /\ (TurnEnded /\ turn.outcome = "returned") =>
        IsPrefix(LogWithMessage, turn.final[1].conversation_history)

\* a turn on an existing session has returned after the intent handler added a
\* reply to a log that already held earlier turns
C27_Witness ==
  /\ TurnEnded /\ turn.outcome = "returned" /\ turn.pre # None
  /\ Ran("handle_user_intent")
  /\ Len(turn.final[1].conversation_history) > Len(LogWithMessage)
  /\ Len(LogBefore) >= 2

\* the keys whose session, when the sweep began, was older than its threshold
ExpiredAtSweep ==
  { k \in DOMAIN sweep.before :
      sweep.current_time - session_data[sweep.before[k]].started_at
        > sweep.max_age_minutes }

\* C28: when the sweep has returned it has deleted exactly the sessions that
\* were older than the threshold when it began, and no other, and its result
\* is their number.
C28_SweepRemovesExactlyExpired ==
  sweep.pc = "returned" =>
     /\ sweep.deleted = { <<k, sweep.before[k]>> : k \in ExpiredAtSweep }
     /\ sweep.result = Cardinality(ExpiredAtSweep)

\* the texts of the exceptions _create_booking can catch and of the gateway's
\* failure message
RawErrorTexts ==
  { Err.invalid_int, Err.str_has_no_get, Err.invalid_date }

\* C29: no assistant message of a session holds the text of an exception or the
\* message of a gateway's failure answer.
C29_NoRawErrorInAssistantMessage ==
  \A s \in SessionStates :
     \A i \in 1..Len(s.conversation_history) :
        s.conversation_history[i].role = "assistant" =>
           \A t \in RawErrorTexts : ~Contains(s.conversation_history[i].content, t)

\* C30: a session is created only for a key that has none: while a call is
\* starting a workflow no session is stored under its key, a call that went to
\* the agent creates no session, a call that found a session works on that one,
\* and every session has an id of its own.
C30_SessionCreatedOnlyWhenAbsent ==
  /\ \A c \in 1..Len(calls) :
       /\ calls[c].pc = "start_workflow" => calls[c].key \notin DOMAIN registry
       /\ calls[c].outcome = "answered" => calls[c].data = 0
       /\ calls[c].pc = "continue_workflow" => calls[c].data # 0
  /\ \A i, j \in 1..Len(session_data) :
       session_data[i].state.session_id = session_data[j].state.session_id => i = j

\* the current or last turn resolved `field` from the user's reply in
\* extract_info
ReplyResolves(field) ==
  \E i \in 1..Len(turn.selected) : turn.selected[i].field = field

\* the fields the user supplies in words
CustomerFields ==
  { "customer_name", "customer_mobile", "booking_date", "booking_time" }

\* C31: a selection turn advances in the same turn: a reply that resolves the
\* branch while no service is chosen ends the turn in query_services with the
\* assistant's answer, and a reply that resolves the service while name, phone,
\* date and time are set ends the turn in confirm_details with no missing field
\* and without a call of the BookingGateway.
C31_SelectionAdvancesInSameTurn ==
  (TurnEnded /\ turn.outcome = "returned" /\ turn.pre # None) =>
     /\ (ReplyResolves("branch_id") /\ ~Truthy(turn.pre[1].service_id)) =>
           /\ turn.ran[Len(turn.ran)] = "query_services"
           /\ AssistantMessagesOfTurn # {}
     /\ (/\ ReplyResolves("service_id")
         /\ \A f \in CustomerFields : Truthy(turn.pre[1][f])) =>
           /\ turn.ran[Len(turn.ran)] = "confirm_details"
           /\ turn.final[1].missing_fields = <<>>
           /\ turn.gw = None

\* the positions among the first five that the text names by number
OrdinalMatches(text, options) ==
  { i \in 1..(IF Len(options) < 5 THEN Len(options) ELSE 5) :
      \/ Strip(Lower(text)) = Str(i)
      \/ \E p \in OrdinalPatterns(i) : Contains(Lower(text), p) }

\* the positions whose option's name occurs in the text, whatever the case
NameMatches(text, options) ==
  { i \in 1..Len(options) : Contains(Lower(text), Lower(options[i].name)) }

\* the least of a non-empty set of positions
First(positions) ==
  CHOOSE i \in positions : \A j \in positions : i <= j

\* C32: _parse_selection gives option i for a text that is just the number i
\* (i at most five and at most the list's length); with no match by number it
\* gives the first option whose name the text contains; it gives None for a
\* number beyond the list when no name occurs; and a match by number wins over
\* a match by name.
C32_SelectionByNumberThenName ==
  calc.fn = "_parse_selection" =>
     LET text == calc.text
         options == calc.options
         byNumber == OrdinalMatches(text, options)
         byName == NameMatches(text, options)
     IN /\ \A i \in 1..Len(options) :
             (i <= 5 /\ Strip(text) = Str(i)) => calc.result = Some(options[i])
        /\ (byNumber = {} /\ byName # {}) => calc.result = Some(options[First(byName)])
        /\ (IsInt(Strip(text)) /\ ParseInt(Strip(text)) > Len(options) /\ byName = {}) =>
              calc.result = None
        /\ byNumber # {} => \E i \in byNumber : calc.result = Some(options[i])

\* a text that names one option by number and another by name
C32_Witness ==
  /\ calc.fn = "_parse_selection"
  /\ OrdinalMatches(calc.text, calc.options) # {}
  /\ NameMatches(calc.text, calc.options) # {}
  /\ NameMatches(calc.text, calc.options) \cap OrdinalMatches(calc.text, calc.options) = {}

\* the intents, highest priority first
IntentPriority ==
  << "edit", "show_summary", "start_over", "confirm", "cancel", "provide_info" >>

\* the intents whose keywords the trimmed, lower-cased message matches: a
\* keyword or confirm phrase anywhere in it, or a confirm token that is all of
\* it; provide_info is matched by every message
MatchedIntents(text) ==
  LET m == Strip(Lower(text)) IN
  { "provide_info" }
    \cup (IF ContainsAny(m, EditWords) THEN {"edit"} ELSE {})
    \cup (IF ContainsAny(m, SummaryWords) THEN {"show_summary"} ELSE {})
    \cup (IF ContainsAny(m, StartOverWords) THEN {"start_over"} ELSE {})
    \cup (IF ContainsAny(m, ConfirmPhrases) \/ IsOneOf(m, ConfirmTokens)
            THEN {"confirm"} ELSE {})
    \cup (IF ContainsAny(m, CancelWords) THEN {"cancel"} ELSE {})

\* C33: detect_user_intent answers every message with one of the six intents,
\* namely the matched intent of the highest priority (edit, show_summary,
\* start_over, confirm, cancel, provide_info); a confirm token counts only as
\* the whole trimmed message, and a message matching nothing is provide_info.
C33_IntentByPriority ==
  calc.fn = "detect_user_intent" =>
     \E k \in 1..Len(IntentPriority) :
        /\ calc.result = IntentPriority[k]
        /\ IntentPriority[k] \in MatchedIntents(calc.text)
        /\ \A j \in 1..(k - 1) : IntentPriority[j] \notin MatchedIntents(calc.text)

\* a message that matches the keywords of two intents besides provide_info and
\* holds a confirm token without being one
C33_Witness ==
  /\ calc.fn = "detect_user_intent"
  /\ Cardinality(MatchedIntents(calc.text)) >= 3
  /\ ContainsAny(Lower(calc.text), ConfirmTokens)
  /\ ~IsOneOf(Strip(Lower(calc.text)), ConfirmTokens)

\* the extractor's answer holds a value for key k that is to be written: not
\* null, not empty, not "Unknown"
Extracted(data, k) ==
  k \in DOMAIN data /\ data[k] # None /\ data[k][1] # <<>> /\ data[k][1] # Unknown

\* C34: merging the extractor's answer destroys nothing: a field that is set
\* keeps its value when the answer holds null, "" or "Unknown" for it (or
\* nothing), and a field changes only to a value the answer holds for it.
C34_MergeKeepsSetFields ==
  calc.fn = "_extract_with_llm" =>
     \A f \in CustomerFields \cup {"branch_id", "service_id"} :
        /\ (Truthy(calc.state[f]) /\ ~Extracted(calc.data, f)) =>
              calc.result[f] = calc.state[f]
        /\ calc.result[f] # calc.state[f] =>
              Extracted(calc.data, f) /\ calc.result[f] = calc.data[f]

\* the answer holds null, "" or "Unknown" for a field that is set, and a value
\* for another
C34_Witness ==
  /\ calc.fn = "_extract_with_llm"
  /\ \E f \in CustomerFields :
        /\ Truthy(calc.state[f])
        /\ f \in DOMAIN calc.data /\ ~Extracted(calc.data, f)
  /\ \E f \in CustomerFields :
        Extracted(calc.data, f) /\ calc.result[f] = calc.data[f]

\* the fields an edit command can name
EditableFields ==
  { "customer_name", "customer_mobile", "branch_id", "service_id",
    "booking_date", "booking_time", "total_customer" }

\* the booking fields an edit of field f is allowed to change: f itself and,
\* for branch and service, the paired options cache
EditFrame(f) ==
  IF f = "branch_id" THEN {"branch_id", "branch_options"}
  ELSE IF f = "service_id" THEN {"service_id", "service_options"}
  ELSE {f}

\* C35: a returned turn whose message carries the Edit intent and names an
\* editable field ends with that field cleared, with the paired options cache
\* empty when the field is branch or service, and with every other booking
\* field as it was before the turn; when the message names no editable field
\* no booking field differs and current_step is show_summary.
C35_EditChangesOnlyNamedField ==
  (/\ TurnEnded
   /\ turn.outcome = "returned"
   /\ turn.pre # None
   /\ detect_user_intent(turn.message) = "edit") =>
    LET now == turn.final[1]
        before == turn.pre[1]
        cmd == handle_edit_command(turn.message)
    IN IF cmd.field # None
         THEN /\ now[cmd.field[1]] = None
              /\ cmd.field[1] = "branch_id" => now.branch_options = <<>>
              /\ cmd.field[1] = "service_id" => now.service_options = <<>>
              /\ \A f \in BookingFields \ EditFrame(cmd.field[1]) :
                   now[f] = before[f]
         ELSE /\ \A f \in BookingFields : now[f] = before[f]
              /\ now.current_step = "show_summary"

\* C36: the BookingGateway is called at most once within a turn: once
\* create_booking has called it, the turn makes no second call, whatever
\* handle_error and the extraction after it route to.
C36_GatewayCalledOncePerTurn ==
  \A i, j \in 1..Len(gw_history) :
    (/\ gw_history[i].session_id = gw_history[j].session_id
     /\ gw_history[i].turn = gw_history[j].turn) => i = j

\* a turn has ended in which create_booking called the gateway and the
\* gateway did not accept
C36_Witness ==
  /\ TurnEnded
  /\ Ran("create_booking")
  /\ \E i \in 1..Len(gw_history) :
       /\ gw_history[i].turn = turns
       /\ ~gw_history[i].accepted

\* the fields the extractor is asked for
ExtractableFields ==
  { "customer_name", "customer_mobile", "booking_date", "booking_time" }

\* C37: whatever keys the extractor's answer holds, _extract_with_llm leaves
\* every field of the state other than customer_name, customer_mobile,
\* booking_date and booking_time as it was (missing_fields and is_complete,
\* which it recomputes from the fields, set aside).
C37_MergeWritesOnlyExtractableFields ==
  calc.fn = "_extract_with_llm" =>
    \A k \in DOMAIN calc.state
             \ (ExtractableFields \cup {"missing_fields", "is_complete"}) :
      calc.result[k] = calc.state[k]

\* C38: every request handed to the BookingGateway carries a total_customer
\* that is an integer of at least 1, never null.
C38_PartySizeAtLeastOne ==
  \A i \in 1..Len(gw_history) :
    /\ gw_history[i].request.total_customer # None
    /\ gw_history[i].request.total_customer[1] \in Nat \ {0}

\* C39: no request handed to the BookingGateway has a null booking_date or a
\* null booking_time: a stored date or time that does not convert keeps
\* create_booking from calling the gateway.
C39_GatewayNeverGetsNullDate ==
  \A i \in 1..Len(gw_history) :
    /\ gw_history[i].request.booking_date # None
    /\ gw_history[i].request.booking_time # None

\* some HTTP attempt of the call returned booking data
AttemptReturnedData ==
  /\ calc.result.api # None
  /\ ~calc.result.api[1].mock
  /\ calc.result.api[1].attempts >= 1
  /\ calc.http[calc.result.api[1].attempts] = "data"

\* C40: create_booking answers success = true only if some HTTP attempt
\* returned booking data; otherwise (every attempt failed, or the answer had
\* no data) success is false and the response carries no booking id and no
\* confirmation code.
C40_SuccessOnlyWithBookingData ==
  calc.fn = "create_booking" =>
    /\ calc.result.success => AttemptReturnedData
    /\ ~AttemptReturnedData =>
         /\ ~calc.result.success
         /\ calc.result.booking_id = None
         /\ calc.result.confirmation_code = None

====
